---- MODULE Spec2Model ----
(***************************************************************************)
(* A model of the zillow-market-tool repository:                           *)
(*   - the SQL transform that builds zip_metrics_monthly                    *)
(*     (transform/build_zip_metrics.sql and its three-statement variant),  *)
(*   - the multi-level map client (app.js),                                *)
(*   - the progressive-detail client (the second front-end script).        *)
(* Each part has its own variables and its own specification; a            *)
(* specification keeps the variables of the other parts at their idle      *)
(* values.                                                                 *)
(***************************************************************************)
EXTENDS Integers, Sequences, FiniteSets, TLC

VARIABLES
    \* ---- SQL transform ----
    zhvi_raw,             \* table zhvi_raw: rows [RegionName, Date, Value]
    zori_raw,             \* table zori_raw: rows [RegionName, Date, Value]
    zip_metrics,          \* table zip_metrics (three-statement variant)
    zip_rent,             \* table zip_rent (three-statement variant)
    zip_metrics_monthly,  \* the output table
    sqlpc,                \* position in the SQL script
    \* ---- one call of getStatisticalValue (app.js) ----
    statProperties,       \* argument properties: field name -> value
    statDataType,         \* argument dataType
    statMethod,           \* argument method
    statResult,           \* the value returned
    statpc,               \* "ready" before the call, "returned" after it
    \* ---- the multi-level map client (app.js) ----
    map,                       \* TRUE once L.map exists (initializeMap)
    mapZoom,                   \* map.getZoom()
    mapLayers,                 \* the data layers attached to the map
    mapHtml,                   \* content of the #map element: "map" or "error"
    timeSeriesData,            \* the loaded feature collection
    currentLayer,              \* the layer the client holds
    currentZoomLevel,
    currentGeographicLevel,
    currentStatisticalMethod,
    currentDataType,
    sliderValue,               \* value of the #time-slider input
    pendingFetch,              \* the fetch loadTimeSeriesData awaits
    lastError,                 \* the exception of the last handler ("none" without one)
    isPlaying,
    playInterval,              \* the id setInterval returned last (0 before the first)
    intervalTimers,            \* active interval timers: id -> currentValue of the callback
    \* ---- one call of getCurrentDate (app.js) ----
    dateMaxValue,              \* the max attribute of #time-slider
    dateCurrentValue,          \* the value of #time-slider
    dateResult,                \* the month returned
    datepc,                    \* "ready" before the call, "returned" after it
    \* ---- the served file data_demo/zip_latest.geojson ----
    zipLatest,                 \* its features: rows [zcta, zhvi, zori]
    \* ---- the overview page (loadData of app.js and of the second script) ----
    loadDataPc,                \* app.js loadData: "idle", "start", "fetching" or its outcome
    statsHtml,                 \* content of #stats written by app.js
    pdLoadDataPc,              \* second script's loadData, same positions
    pdStatsHtml,               \* content of #stats written by the second script
    pdTableRows,               \* rows of #data-table written by the second script
    \* ---- the progressive-detail Time Series page (second script) ----
    currentPage,               \* the page switchPage has shown
    pageOpens,                 \* how many times the Time Series page was opened
    pendingInit,               \* setTimeout callbacks of switchPage not yet run
    pendingStateFetch,         \* fetches loadStateLevelData awaits
    stateLoadOutcome,          \* outcome of the last finished loadStateLevelData
    pdMap,                     \* the script's map: TRUE once L.map exists
    pdMapHtml,                 \* content of the #map element
    pdTimeSeriesData,          \* the script's timeSeriesData
    dataCache,                 \* dataCache.states
    pdCurrentLayer,            \* the script's currentLayer
    pdMapLayers,               \* the data layers attached to the script's map
    pdSliderValue,             \* value of #time-slider
    pdDataType,                \* value of the #data-type select
    pdOverlayType,             \* value of the #overlay-type select
    controlListeners,          \* change/click listeners added by initializeTimeSeriesPage
    sliderListeners,           \* input listeners added by initializeTimeSlider
    consoleErrors,             \* messages written with console.error
    pdIsPlaying,               \* the script's isPlaying
    pdPlayInterval,            \* the script's playInterval (0 for null)
    pdIntervalTimers,          \* active interval timers: id -> currentIndex of the callback
    pdMapZoom,                 \* map.getZoom() of the script's map
    pdCurrentZoomLevel,        \* the script's currentZoomLevel
    dataCacheZipcodes,         \* dataCache.zipcodes
    pendingUpdates,            \* updateMapData calls awaiting the fetch of loadDetailedData
    detailFetches,             \* fetches of the detailed ZIP data started so far
    pdLastEvent,               \* the last event handled: "click", "tick" or "other"
    \* ---- the pipeline scripts ----
    script,                    \* the script of the current run ("none" before the first)
    pipepc,                    \* index of its next command
    exitStatus,                \* "none", "running", "exit 0" or "exit 1"
    executed,                  \* the commands the run has executed, with their outcome
    files,                     \* the files and directories that exist
    filesAtStart,              \* the files that existed when the run started
    runs,                      \* number of runs started
    \* ---- one call of the reduction ----
    reduceInput,               \* the list of non-null values
    reduceResult,              \* avg, median, max, min, count
    reducepc,                  \* "ready" before the call, "returned" after it
    \* ---- the aggregation engine ----
    aggRecords,                \* the MetricRecord table: <<ZIP index, date index>> -> record
    zipToState,                \* the ZIP-to-state table in use
    stateToStateRegion,        \* the state-to-state-region table in use
    aggOutput,                 \* level -> the features emitted
    aggpc                      \* "ready" before the run, "done" after it

sqlVars == <<zhvi_raw, zori_raw, zip_metrics, zip_rent, zip_metrics_monthly, sqlpc>>
statVars == <<statProperties, statDataType, statMethod, statResult, statpc>>

appVars ==
    <<map, mapZoom, mapLayers, mapHtml, timeSeriesData, currentLayer, currentZoomLevel,
      currentGeographicLevel, currentStatisticalMethod, currentDataType, sliderValue,
      pendingFetch, lastError>>

fileVars == <<zipLatest>>
overviewVars == <<loadDataPc, statsHtml, pdLoadDataPc, pdStatsHtml, pdTableRows>>

progVars ==
    <<currentPage, pageOpens, pendingInit, pendingStateFetch, stateLoadOutcome, pdMap,
      pdMapHtml, pdTimeSeriesData, dataCache, pdCurrentLayer, pdMapLayers, pdSliderValue,
      pdDataType, pdOverlayType, controlListeners, sliderListeners, consoleErrors,
      pdIsPlaying, pdPlayInterval, pdIntervalTimers, pdMapZoom, pdCurrentZoomLevel,
      dataCacheZipcodes, pendingUpdates, detailFetches, pdLastEvent>>

\* What the page in use never changes.
pdFixed ==
    <<currentPage, pageOpens, pendingInit, pendingStateFetch, stateLoadOutcome, pdMap,
      pdMapHtml, pdTimeSeriesData, dataCache, controlListeners, sliderListeners>>

\* What opening the page never changes.
pdInUse ==
    <<pdIsPlaying, pdPlayInterval, pdIntervalTimers, pdMapZoom, pdCurrentZoomLevel,
      dataCacheZipcodes, pendingUpdates, detailFetches, pdLastEvent>>

playVars == <<isPlaying, playInterval, intervalTimers>>
dateVars == <<dateMaxValue, dateCurrentValue, dateResult, datepc>>
pipeVars == <<script, pipepc, exitStatus, executed, files, filesAtStart, runs>>

reduceVars == <<reduceInput, reduceResult, reducepc>>
aggVars == <<aggRecords, zipToState, stateToStateRegion, aggOutput, aggpc>>

vars ==
    <<sqlVars, statVars, appVars, fileVars, overviewVars, progVars, pipeVars, reduceVars,
      aggVars, playVars, dateVars>>

\* What an action of one part leaves alone: the variables of the other parts.
notSql ==
    <<statVars, appVars, fileVars, overviewVars, progVars, pipeVars, reduceVars, aggVars,
      playVars, dateVars>>
notStat ==
    <<sqlVars, appVars, fileVars, overviewVars, progVars, pipeVars, reduceVars, aggVars,
      playVars, dateVars>>
notApp ==
    <<sqlVars, statVars, fileVars, overviewVars, progVars, pipeVars, reduceVars, aggVars,
      playVars, dateVars>>
notOverview ==
    <<sqlVars, statVars, appVars, fileVars, progVars, pipeVars, reduceVars, aggVars,
      playVars, dateVars>>
notReduce ==
    <<sqlVars, statVars, appVars, fileVars, overviewVars, progVars, pipeVars, aggVars,
      playVars, dateVars>>
notAgg ==
    <<sqlVars, statVars, appVars, fileVars, overviewVars, progVars, pipeVars, reduceVars,
      playVars, dateVars>>
notPlay ==
    <<sqlVars, statVars, fileVars, overviewVars, progVars, pipeVars, reduceVars, aggVars,
      dateVars>>
notDate ==
    <<sqlVars, statVars, appVars, fileVars, overviewVars, progVars, pipeVars, reduceVars,
      aggVars, playVars>>
notPipe ==
    <<sqlVars, statVars, appVars, fileVars, overviewVars, progVars, reduceVars, aggVars,
      playVars, dateVars>>
notProg ==
    <<sqlVars, statVars, appVars, fileVars, overviewVars, pipeVars, reduceVars, aggVars,
      playVars, dateVars>>

(***************************************************************************)
(* Values.  A JavaScript / SQL value is a number, null, or (JavaScript     *)
(* only) undefined.  All three are records of one shape so that any two    *)
(* values can be compared.                                                 *)
(***************************************************************************)
Num(n) == [t |-> "number", v |-> n]
Null == [t |-> "null", v |-> 0]
Undefined == [t |-> "undefined", v |-> 0]

IsNum(x) == x.t = "number"

(***************************************************************************)
(* Bounds of the SQL model.                                                *)
(***************************************************************************)
MaxRows == 2
MaxSqlValue == 2

SqlZips == {"02101", "10001"}
SqlDates == {"2024-01", "2024-02"}
SqlValues == {Null} \cup {Num(n) : n \in 1..MaxSqlValue}
RawRows == [RegionName : SqlZips, Date : SqlDates, Value : SqlValues]
RawTables == {T \in SUBSET RawRows : Cardinality(T) <= MaxRows}

(***************************************************************************)
(* SELECT RegionName AS zcta, "Date" AS date, Value AS <metric> FROM raw   *)
(***************************************************************************)
zhvi_clean(raw) ==
    {[zcta |-> row.RegionName, date |-> row.Date, zhvi |-> row.Value] : row \in raw}

zori_clean(raw) ==
    {[zcta |-> row.RegionName, date |-> row.Date, zori |-> row.Value] : row \in raw}

(***************************************************************************)
(* SELECT m.zcta, m.date, m.zhvi, r.zori FROM m LEFT JOIN r USING          *)
(* (zcta, date): one output row per matching pair, and one row with a      *)
(* null zori for every left row without a match.                           *)
(***************************************************************************)
JoinMatches(m, R) == {r \in R : r.zcta = m.zcta /\ r.date = m.date}

\* The same query written with an inner join: unmatched left rows are lost.
LeftJoinUsing_Inner(M, R) ==
    {[zcta |-> p[1].zcta, date |-> p[1].date, zhvi |-> p[1].zhvi, zori |-> p[2].zori] :
        p \in {q \in M \X R : q[2] \in JoinMatches(q[1], R)}}

LeftJoinUsing(M, R) ==
    {[zcta |-> p[1].zcta, date |-> p[1].date, zhvi |-> p[1].zhvi, zori |-> p[2].zori] :
        p \in {q \in M \X R : q[2] \in JoinMatches(q[1], R)}}
    \cup {[zcta |-> m.zcta, date |-> m.date, zhvi |-> m.zhvi, zori |-> Null] :
            m \in {l \in M : JoinMatches(l, R) = {}}}

SqlInit ==
    /\ zhvi_raw \in RawTables
    /\ zori_raw \in RawTables
    /\ zip_metrics = {}
    /\ zip_rent = {}
    /\ zip_metrics_monthly = {}
    /\ sqlpc = "start"

\* transform/build_zip_metrics.sql: one statement with two CTEs.
BuildZipMetrics ==
    /\ sqlpc = "start"
    /\ zip_metrics_monthly' = LeftJoinUsing(zhvi_clean(zhvi_raw), zori_clean(zori_raw))
    /\ sqlpc' = "done"
    /\ UNCHANGED <<zhvi_raw, zori_raw, zip_metrics, zip_rent, notSql>>

\* The three-statement variant: CREATE OR REPLACE TABLE zip_metrics ...
CreateZipMetrics ==
    /\ sqlpc = "start"
    /\ zip_metrics' = zhvi_clean(zhvi_raw)
    /\ sqlpc' = "metrics"
    /\ UNCHANGED <<zhvi_raw, zori_raw, zip_rent, zip_metrics_monthly, notSql>>

\* ... CREATE OR REPLACE TABLE zip_rent ...
CreateZipRent ==
    /\ sqlpc = "metrics"
    /\ zip_rent' = zori_clean(zori_raw)
    /\ sqlpc' = "rent"
    /\ UNCHANGED <<zhvi_raw, zori_raw, zip_metrics, zip_metrics_monthly, notSql>>

\* ... CREATE OR REPLACE TABLE zip_metrics_monthly.
CreateZipMetricsMonthly ==
    /\ sqlpc = "rent"
    /\ zip_metrics_monthly' = LeftJoinUsing(zip_metrics, zip_rent)
    /\ sqlpc' = "done"
    /\ UNCHANGED <<zhvi_raw, zori_raw, zip_metrics, zip_rent, notSql>>

SqlIdle ==
    /\ zhvi_raw = {}
    /\ zori_raw = {}
    /\ zip_metrics = {}
    /\ zip_rent = {}
    /\ zip_metrics_monthly = {}
    /\ sqlpc = "idle"

SqlNext ==
    \/ BuildZipMetrics
    \/ CreateZipMetrics
    \/ CreateZipRent
    \/ CreateZipMetricsMonthly

(***************************************************************************)
(* C1: zip_metrics_monthly is the left join of the home-value rows with    *)
(* the rent rows on (zcta, date): every home-value row appears with its    *)
(* zhvi; its zori is a rent value of the same (zcta, date) when one exists *)
(* (and every such rent value appears) and null otherwise; the output      *)
(* holds nothing else, so a (zcta, date) found only in the rent table      *)
(* never appears.                                                          *)
(***************************************************************************)
RentOf(zcta, date) ==
    {r.Value : r \in {x \in zori_raw : x.RegionName = zcta /\ x.Date = date}}

HomeKeys == {<<m.RegionName, m.Date>> : m \in zhvi_raw}
RentKeys == {<<r.RegionName, r.Date>> : r \in zori_raw}

C1_LeftJoin ==
    sqlpc = "done" =>
        /\ \A m \in zhvi_raw :
            LET zoris == {o.zori : o \in {x \in zip_metrics_monthly :
                              x.zcta = m.RegionName /\ x.date = m.Date /\ x.zhvi = m.Value}}
            IN  IF RentOf(m.RegionName, m.Date) = {}
                THEN zoris = {Null}
                ELSE zoris = RentOf(m.RegionName, m.Date)
        /\ \A o \in zip_metrics_monthly :
            \E m \in zhvi_raw :
                o.zcta = m.RegionName /\ o.date = m.Date /\ o.zhvi = m.Value
        /\ \A k \in RentKeys \ HomeKeys :
            \A o \in zip_metrics_monthly : <<o.zcta, o.date>> # k

\* A finished run with a matched home-value row, an unmatched one, and a
\* rent-only (zcta, date).
C1_Witness ==
    /\ sqlpc = "done"
    /\ HomeKeys \cap RentKeys # {}
    /\ HomeKeys \ RentKeys # {}
    /\ RentKeys \ HomeKeys # {}

(***************************************************************************)
(* app.js: the statistical-method table and getStatisticalValue.           *)
(***************************************************************************)
STATISTICAL_METHODS ==
    [average |-> "avg_", median |-> "median_", max |-> "max_", min |-> "min_",
     count |-> "count"]

Methods == DOMAIN STATISTICAL_METHODS
DataTypes == {"zhvi", "zori"}

\* properties[name]: undefined when the object has no such field.
Get(obj, name) == IF name \in DOMAIN obj THEN obj[name] ELSE Undefined

\* JavaScript truthiness of a value: undefined, null and 0 are falsy.
Truthy(x) == IsNum(x) /\ x.v # 0

getStatisticalValue(properties, dataType, method) ==
    LET prefix == STATISTICAL_METHODS[method]
        propertyName == prefix \o dataType
        avgPropertyName == "avg_" \o dataType
    IN  IF Get(properties, propertyName) # Undefined
        THEN Get(properties, propertyName)
        ELSE IF Get(properties, avgPropertyName) # Undefined
        THEN Get(properties, avgPropertyName)
        ELSE IF Truthy(Get(properties, dataType))
        THEN Get(properties, dataType)
        ELSE Num(0)

(***************************************************************************)
(* The feature properties a call is tried on.  For a metric, the fields    *)
(* are the five StatBlock fields, the field the code builds for the count  *)
(* method, and the bare metric.  A present field holds null or a number    *)
(* that tells the fields apart; the bare field may also hold 0.            *)
(***************************************************************************)
StatBlockPrefixes == <<"avg_", "median_", "max_", "min_", "count_">>

StatBlockFields(dataType) == {StatBlockPrefixes[i] \o dataType : i \in 1..Len(StatBlockPrefixes)}

FieldsOf(dataType) == StatBlockFields(dataType) \cup {"count" \o dataType, dataType}

FieldOrder ==
    <<"avg_zhvi", "median_zhvi", "max_zhvi", "min_zhvi", "count_zhvi", "countzhvi", "zhvi",
      "avg_zori", "median_zori", "max_zori", "min_zori", "count_zori", "countzori", "zori">>

FieldCode(name) == CHOOSE i \in 1..Len(FieldOrder) : FieldOrder[i] = name

PropertiesOver(present, nulls, zeros) ==
    [name \in present |->
        IF name \in nulls THEN Null
        ELSE IF name \in zeros THEN Num(0)
        ELSE Num(FieldCode(name))]

PropertiesChoices ==
    UNION {
        {PropertiesOver(present \cup other, nulls, zeros) :
            nulls \in SUBSET present,
            zeros \in SUBSET (present \cap DataTypes)} :
        present \in UNION {SUBSET FieldsOf(d) : d \in DataTypes},
        other \in {{}} \cup {StatBlockFields(d) : d \in DataTypes}}

StatInit ==
    /\ statProperties \in PropertiesChoices
    /\ statDataType = "zhvi"
    /\ statMethod = "average"
    /\ statResult = Undefined
    /\ statpc = "ready"

\* One call getStatisticalValue(properties, dataType, method).
CallGetStatisticalValue(dataType, method) ==
    /\ statpc = "ready"
    /\ statDataType' = dataType
    /\ statMethod' = method
    /\ statResult' = getStatisticalValue(statProperties, dataType, method)
    /\ statpc' = "returned"
    /\ UNCHANGED <<statProperties, notStat>>

StatIdle ==
    /\ statProperties = << >>
    /\ statDataType = "zhvi"
    /\ statMethod = "average"
    /\ statResult = Undefined
    /\ statpc = "idle"

StatNext == \E dataType \in DataTypes, method \in Methods : CallGetStatisticalValue(dataType, method)

(***************************************************************************)
(* C2: getStatisticalValue returns the field prefix(method)+metric when    *)
(* that field is present; otherwise avg_<metric> when present; otherwise   *)
(* the bare <metric> field; otherwise 0.                                   *)
(***************************************************************************)
C2_FallbackChain ==
    statpc = "returned" =>
        LET specific == STATISTICAL_METHODS[statMethod] \o statDataType
            average == "avg_" \o statDataType
        IN  statResult =
                IF specific \in DOMAIN statProperties THEN statProperties[specific]
                ELSE IF average \in DOMAIN statProperties THEN statProperties[average]
                ELSE IF statDataType \in DOMAIN statProperties THEN statProperties[statDataType]
                ELSE Num(0)

(***************************************************************************)
(* C3: on a feature that carries all StatBlock fields, the value returned  *)
(* for a method and a metric is the value of the StatBlock field of that   *)
(* method and metric (avg_, median_, max_, min_, count_ + metric).         *)
(***************************************************************************)
StatBlockFieldOf(method, dataType) ==
    [average |-> "avg_", median |-> "median_", max |-> "max_", min |-> "min_",
     count |-> "count_"][method] \o dataType

C3_ReadsStatBlockField ==
    (/\ statpc = "returned"
     /\ StatBlockFields(statDataType) \subseteq DOMAIN statProperties) =>
        statResult = statProperties[StatBlockFieldOf(statMethod, statDataType)]

(***************************************************************************)
(* app.js: the level table and the level picked for a zoom                 *)
(* (the loop of updateGeographicLevel).                                    *)
(***************************************************************************)
GEOGRAPHIC_LEVELS ==
    [region |-> [zoom_threshold |-> 4, file |-> "data_demo/aggregated/regions.geojson"],
     state_region |-> [zoom_threshold |-> 6, file |-> "data_demo/aggregated/state_regions.geojson"],
     state |-> [zoom_threshold |-> 8, file |-> "data_demo/aggregated/states.geojson"],
     zipcode |-> [zoom_threshold |-> 10, file |-> "data_demo/zip_latest.geojson"],
     h3 |-> [zoom_threshold |-> 10, file |-> "data_demo/grid_latest.geojson"]]

\* Object.entries(GEOGRAPHIC_LEVELS): the keys in insertion order.
LevelOrder == <<"region", "state_region", "state", "zipcode", "h3">>
Levels == {LevelOrder[i] : i \in 1..Len(LevelOrder)}

MinOf(S) == CHOOSE x \in S : \A y \in S : x <= y

\* The same loop with a strict comparison against the threshold.
LevelForZoom_Strict(zoom) ==
    LET hits == {i \in 1..Len(LevelOrder) :
                    zoom < GEOGRAPHIC_LEVELS[LevelOrder[i]].zoom_threshold}
    IN  IF hits = {} THEN "region" ELSE LevelOrder[MinOf(hits)]

\* newLevel: 'region' unless an entry with zoom <= zoom_threshold is met; the
\* first such entry wins (break).
LevelForZoom(zoom) ==
    LET hits == {i \in 1..Len(LevelOrder) :
                    zoom <= GEOGRAPHIC_LEVELS[LevelOrder[i]].zoom_threshold}
    IN  IF hits = {} THEN "region" ELSE LevelOrder[MinOf(hits)]

(***************************************************************************)
(* Bounds of the client model.                                             *)
(***************************************************************************)
MaxZoom == 11
SliderMax == 2

Zooms == 0..MaxZoom
SliderValues == 0..SliderMax

(***************************************************************************)
(* getCurrentDate: the slider position mapped onto the six fixed months.   *)
(***************************************************************************)
Dates == <<"2024-01", "2024-02", "2024-03", "2024-04", "2024-05", "2024-06">>

getCurrentDate_Modulo(currentValue, maxValue) == Dates[(currentValue % Len(Dates)) + 1]

getCurrentDate(currentValue, maxValue) ==
    LET index == (currentValue * (Len(Dates) - 1)) \div maxValue
    IN  IF index + 1 \in 1..Len(Dates) THEN Dates[index + 1] ELSE Dates[Len(Dates)]

(***************************************************************************)
(* Feature collections the server may answer with.  A feature has an id,   *)
(* its properties (the statistics of the latest date) and timeValues (the  *)
(* statistics per date).  The statistic of field f at the i-th date is     *)
(* 10 * FieldCode(f) + i, so the dates differ.                             *)
(***************************************************************************)
StatValue(name, i) == Num(10 * FieldCode(name) + i)

\* A StatBlock of date i; the fields of the metrics in `empty` are those of an
\* empty reduction group: null statistics, count 0.
StatBlockAt(i, empty) ==
    [name \in StatBlockFields("zhvi") \cup StatBlockFields("zori") \cup {"count"} |->
        IF name = "count" THEN Num(2)
        ELSE IF \E d \in empty : name = "count_" \o d THEN Num(0)
        ELSE IF \E d \in empty : name \in StatBlockFields(d) THEN Null
        ELSE StatValue(name, i)]

\* The bare fields of a ZIP feature; zori is null when the ZIP has no rent row.
BareAt(i, empty) ==
    [name \in DataTypes |-> IF name \in empty THEN Null ELSE StatValue(name, i)]

BlockAt(kind, i, empty) == IF kind = "zip" THEN BareAt(i, empty) ELSE StatBlockAt(i, empty)

DateIndex(d) == CHOOSE i \in 1..Len(Dates) : Dates[i] = d

FeatureOf(id, kind, empty, ds) ==
    [id |-> id,
     properties |-> BlockAt(kind, Len(Dates), empty),
     timeValues |-> [d \in ds |-> BlockAt(kind, DateIndex(d), empty)]]

AllDates == {Dates[i] : i \in 1..Len(Dates)}

FullFeature == FeatureOf("Northeast", "group", {}, AllDates)
NoRentFeature == FeatureOf("West", "group", {"zori"}, AllDates)
LatestOnlyFeature == FeatureOf("South", "group", {}, {Dates[Len(Dates)]})
ZipFeature == FeatureOf("02101", "zip", {}, AllDates)
ZipNoRentFeature == FeatureOf("10001", "zip", {"zori"}, AllDates)

\* The client never changes the features it has loaded, so the state holds
\* the name of the collection and FeaturesOf gives its features.
CollectionTable ==
    [empty |-> << >>,
     norent |-> <<FullFeature, NoRentFeature>>,
     latestonly |-> <<LatestOnlyFeature>>,
     zips |-> <<ZipFeature, ZipNoRentFeature>>]

Collections == DOMAIN CollectionTable

FeaturesOf(data) == IF data.loaded THEN CollectionTable[data.collection] ELSE << >>

NoData == [loaded |-> FALSE, file |-> "", collection |-> ""]
NoLayer == [made |-> FALSE, level |-> "", method |-> "", dataType |-> "", date |-> "",
            features |-> << >>]
NoFetch == [active |-> FALSE, file |-> ""]

\* A layer object that is off the map and still referred to by currentLayer.
\* Nothing reads the content of such a layer again (it is only handed to
\* map.removeLayer and then replaced), so only its existence is kept.
DetachedLayer == [made |-> TRUE, level |-> "", method |-> "", dataType |-> "", date |-> "",
                  features |-> << >>]

(***************************************************************************)
(* createMapLayer.  A feature without timeValues[currentDate] is dropped;  *)
(* the value of a kept feature comes from getStatisticalValue on its       *)
(* properties.  L.geoJSON runs onEachFeature on every feature, and         *)
(* props.value.toLocaleString() raises a TypeError on a null value.        *)
(***************************************************************************)
KeptFeatures(data, currentDate) ==
    SelectSeq(FeaturesOf(data), LAMBDA f : currentDate \in DOMAIN f.timeValues)

RenderedFeature(feature, dataType, method) ==
    [id |-> feature.id,
     value |-> getStatisticalValue(feature.properties, dataType, method),
     count |-> IF Truthy(Get(feature.properties, "count"))
               THEN Get(feature.properties, "count") ELSE Num(1)]

createMapLayer(data, level, method, dataType, slider) ==
    LET currentDate == getCurrentDate(slider, SliderMax)
        kept == KeptFeatures(data, currentDate)
        features == [i \in 1..Len(kept) |-> RenderedFeature(kept[i], dataType, method)]
    IN  IF ~data.loaded \/ Len(features) = 0
        THEN [threw |-> FALSE, layer |-> NoLayer]
        ELSE IF \E i \in 1..Len(features) : ~IsNum(features[i].value)
        THEN [threw |-> TRUE, layer |-> NoLayer]
        ELSE [threw |-> FALSE,
              layer |-> [made |-> TRUE, level |-> level, method |-> method,
                         dataType |-> dataType, date |-> currentDate,
                         features |-> features]]

(***************************************************************************)
(* updateMapData, as the new currentLayer and map layers it leaves, and    *)
(* whether it raised.  It returns at once when the map or the data is      *)
(* missing; otherwise the held layer is taken off the map before the new   *)
(* one is created, so an exception in createMapLayer leaves the map        *)
(* without this layer and currentLayer unassigned.                         *)
(***************************************************************************)
updateMapData(mp, data, layer, layers, level, method, dataType, slider) ==
    IF ~mp \/ ~data.loaded
    THEN [currentLayer |-> layer, mapLayers |-> layers, threw |-> FALSE]
    ELSE LET removed == IF layer.made THEN layers \ {layer} ELSE layers
             created == createMapLayer(data, level, method, dataType, slider)
         IN  IF created.threw
             THEN [currentLayer |-> IF layer.made THEN DetachedLayer ELSE layer,
                   mapLayers |-> removed, threw |-> TRUE]
             ELSE [currentLayer |-> created.layer,
                   mapLayers |-> IF created.layer.made
                                 THEN removed \cup {created.layer} ELSE removed,
                   threw |-> FALSE]

\* A handler that sets some of the selections and then calls updateMapData.
SetAndUpdate(level, method, dataType, slider) ==
    LET u == updateMapData(map, timeSeriesData, currentLayer, mapLayers,
                           level, method, dataType, slider)
    IN  /\ currentGeographicLevel' = level
        /\ currentStatisticalMethod' = method
        /\ currentDataType' = dataType
        /\ sliderValue' = slider
        /\ currentLayer' = u.currentLayer
        /\ mapLayers' = u.mapLayers
        /\ lastError' = IF u.threw THEN "TypeError uncaught" ELSE "none"

AppInit ==
    /\ map = FALSE
    /\ mapZoom = 0
    /\ mapLayers = {}
    /\ mapHtml = "map"
    /\ timeSeriesData = NoData
    /\ currentLayer = NoLayer
    /\ currentZoomLevel = 5
    /\ currentGeographicLevel = "region"
    /\ currentStatisticalMethod = "average"
    /\ currentDataType = "zhvi"
    /\ sliderValue \in SliderValues
    /\ pendingFetch = NoFetch
    /\ lastError = "none"

\* The DOMContentLoaded handler: the listeners are attached, the map is
\* created at zoom 5, and loadTimeSeriesData runs up to its await of fetch.
DOMContentLoaded ==
    /\ ~map
    /\ map' = TRUE
    /\ mapZoom' = 5
    /\ pendingFetch' = [active |-> TRUE, file |-> GEOGRAPHIC_LEVELS[currentGeographicLevel].file]
    /\ lastError' = "none"
    /\ UNCHANGED <<mapLayers, mapHtml, timeSeriesData, currentLayer, currentZoomLevel,
                   currentGeographicLevel, currentStatisticalMethod, currentDataType,
                   sliderValue, notApp>>

FetchOutcomes == {"ok", "network error", "http status", "content type", "parse error"}

\* loadTimeSeriesData from the answer of fetch to its end.  Every failure,
\* an exception of updateMapData included, ends in the catch block, which
\* writes the error message into #map.
LoadTimeSeriesDataResume(outcome, collection) ==
    /\ pendingFetch.active
    /\ pendingFetch' = NoFetch
    /\ IF outcome = "ok"
       THEN LET data == [loaded |-> TRUE, file |-> pendingFetch.file, collection |-> collection]
                u == updateMapData(map, data, currentLayer, mapLayers, currentGeographicLevel,
                                   currentStatisticalMethod, currentDataType, sliderValue)
            IN  /\ timeSeriesData' = data
                /\ currentLayer' = u.currentLayer
                /\ mapLayers' = u.mapLayers
                /\ mapHtml' = IF u.threw THEN "error" ELSE mapHtml
                /\ lastError' = IF u.threw THEN "TypeError caught" ELSE "none"
       ELSE /\ mapHtml' = "error"
            /\ lastError' = "load error caught"
            /\ UNCHANGED <<timeSeriesData, currentLayer, mapLayers>>
    /\ UNCHANGED <<map, mapZoom, currentZoomLevel, currentGeographicLevel,
                   currentStatisticalMethod, currentDataType, sliderValue, notApp>>

\* change on #overlay-type
OverlayTypeChange(level) ==
    /\ map
    /\ SetAndUpdate(level, currentStatisticalMethod, currentDataType, sliderValue)
    /\ UNCHANGED <<map, mapZoom, mapHtml, timeSeriesData, currentZoomLevel, pendingFetch, notApp>>

\* change on #statistical-method
StatisticalMethodChange(method) ==
    /\ map
    /\ SetAndUpdate(currentGeographicLevel, method, currentDataType, sliderValue)
    /\ UNCHANGED <<map, mapZoom, mapHtml, timeSeriesData, currentZoomLevel, pendingFetch, notApp>>

\* change on #data-type
DataTypeChange(dataType) ==
    /\ map
    /\ SetAndUpdate(currentGeographicLevel, currentStatisticalMethod, dataType, sliderValue)
    /\ UNCHANGED <<map, mapZoom, mapHtml, timeSeriesData, currentZoomLevel, pendingFetch, notApp>>

\* input on #time-slider
TimeSliderInput(value) ==
    /\ map
    /\ SetAndUpdate(currentGeographicLevel, currentStatisticalMethod, currentDataType, value)
    /\ UNCHANGED <<map, mapZoom, mapHtml, timeSeriesData, currentZoomLevel, pendingFetch, notApp>>

\* zoomend with the map at zoom newZoom.  Only a change of more than one
\* step is taken over into currentZoomLevel and followed by
\* updateGeographicLevel, which calls updateMapData when the level changes.
ZoomEnd(newZoom) ==
    /\ map
    /\ mapZoom' = newZoom
    /\ IF newZoom - currentZoomLevel > 1 \/ currentZoomLevel - newZoom > 1
       THEN /\ currentZoomLevel' = newZoom
            /\ IF LevelForZoom(newZoom) # currentGeographicLevel
               THEN SetAndUpdate(LevelForZoom(newZoom), currentStatisticalMethod,
                                 currentDataType, sliderValue)
               ELSE /\ lastError' = "none"
                    /\ UNCHANGED <<currentGeographicLevel, currentStatisticalMethod,
                                   currentDataType, sliderValue, currentLayer, mapLayers>>
       ELSE /\ lastError' = "none"
            /\ UNCHANGED <<currentZoomLevel, currentGeographicLevel, currentStatisticalMethod,
                           currentDataType, sliderValue, currentLayer, mapLayers>>
    /\ UNCHANGED <<map, mapHtml, timeSeriesData, pendingFetch, notApp>>

\* click on #clear-btn
clearMap ==
    /\ map
    /\ mapLayers' = IF currentLayer.made THEN mapLayers \ {currentLayer} ELSE mapLayers
    /\ currentLayer' = NoLayer
    /\ lastError' = "none"
    /\ UNCHANGED <<map, mapZoom, mapHtml, timeSeriesData, currentZoomLevel,
                   currentGeographicLevel, currentStatisticalMethod, currentDataType,
                   sliderValue, pendingFetch, notApp>>

AppIdle ==
    /\ map = FALSE
    /\ mapZoom = 0
    /\ mapLayers = {}
    /\ mapHtml = "map"
    /\ timeSeriesData = NoData
    /\ currentLayer = NoLayer
    /\ currentZoomLevel = 5
    /\ currentGeographicLevel = "region"
    /\ currentStatisticalMethod = "average"
    /\ currentDataType = "zhvi"
    /\ sliderValue = 0
    /\ pendingFetch = NoFetch
    /\ lastError = "none"

AppNext ==
    \/ DOMContentLoaded
    \/ \E outcome \in FetchOutcomes, collection \in Collections :
        LoadTimeSeriesDataResume(outcome, collection)
    \/ \E level \in Levels : OverlayTypeChange(level)
    \/ \E method \in Methods : StatisticalMethodChange(method)
    \/ \E dataType \in DataTypes : DataTypeChange(dataType)
    \/ \E value \in SliderValues : TimeSliderInput(value)
    \/ \E newZoom \in Zooms : ZoomEnd(newZoom)
    \/ clearMap

(***************************************************************************)
(* C4: the level picked by zoom is a function of the zoom alone: whenever  *)
(* a zoomend takes over a new zoom (updateGeographicLevel runs), the level *)
(* afterwards is region for zoom <= 4, state_region for 5-6, state for 7-8 *)
(* and zipcode for 9-10, whatever the level, method and data type were.    *)
(***************************************************************************)
C4_LevelByZoom ==
    [][currentZoomLevel' # currentZoomLevel =>
        /\ currentZoomLevel' <= 4 => currentGeographicLevel' = "region"
        /\ currentZoomLevel' \in 5..6 => currentGeographicLevel' = "state_region"
        /\ currentZoomLevel' \in 7..8 => currentGeographicLevel' = "state"
        /\ currentZoomLevel' \in 9..10 => currentGeographicLevel' = "zipcode"]_vars

\* A zoom to 9 was taken over while method and data type were not the
\* initial ones, and the ZIP level is selected.
C4_Witness ==
    /\ currentZoomLevel = 9
    /\ currentGeographicLevel = "zipcode"
    /\ currentStatisticalMethod = "median"
    /\ currentDataType = "zori"

(***************************************************************************)
(* C5: the level selected by zoom never gets coarser as the zoom grows:    *)
(* when updateGeographicLevel has selected the level for one zoom and then *)
(* selects it for a larger zoom, the new level is at least as fine         *)
(* (region < state_region < state < zipcode = h3).                         *)
(***************************************************************************)
Fineness(level) ==
    [region |-> 1, state_region |-> 2, state |-> 3, zipcode |-> 4, h3 |-> 4][level]

C5_FinerWithZoom ==
    [][(/\ currentGeographicLevel = LevelForZoom(currentZoomLevel)
        /\ currentZoomLevel' > currentZoomLevel) =>
            Fineness(currentGeographicLevel') >= Fineness(currentGeographicLevel)]_vars

(***************************************************************************)
(* C6: whenever a layer is on the map, the loaded feature collection is    *)
(* the one fetched from the file of the current geographic level.          *)
(***************************************************************************)
C6_DataOfCurrentLevel ==
    (currentLayer.made /\ currentLayer \in mapLayers) =>
        timeSeriesData.file = GEOGRAPHIC_LEVELS[currentGeographicLevel].file

(***************************************************************************)
(* C7: the value shown for a feature is the one of its timeValues entry    *)
(* of the selected date, for the selected method and data type.            *)
(***************************************************************************)
SourceFeature(id) ==
    LET fs == FeaturesOf(timeSeriesData)
    IN  fs[CHOOSE i \in 1..Len(fs) : fs[i].id = id]

C7_ValueOfSelectedDate ==
    \A layer \in mapLayers :
        \A i \in 1..Len(layer.features) :
            layer.features[i].value =
                getStatisticalValue(SourceFeature(layer.features[i].id).timeValues[layer.date],
                                    layer.dataType, layer.method)

(***************************************************************************)
(* C9: sparse data never crashes the client: no handler ends with an       *)
(* exception of the layer creation, and a feature that has an entry for    *)
(* the selected date is on the layer even if its statistic is null or      *)
(* absent.                                                                 *)
(***************************************************************************)
C9_SparseDataRenders ==
    /\ lastError \notin {"TypeError caught", "TypeError uncaught"}
    /\ \A layer \in mapLayers :
        LET fs == FeaturesOf(timeSeriesData)
        IN  \A i \in 1..Len(fs) :
                layer.date \in DOMAIN fs[i].timeValues =>
                    \E j \in 1..Len(layer.features) : layer.features[j].id = fs[i].id

(***************************************************************************)
(* C21: the map switches level automatically with zoom: after every        *)
(* zoomend that moved the map to another zoom, currentZoomLevel is the     *)
(* map's zoom and currentGeographicLevel is the level the threshold table  *)
(* assigns to that zoom, changes of a single step included.                *)
(***************************************************************************)
C21_LevelFollowsZoom ==
    [][(map /\ mapZoom' # mapZoom) =>
        /\ currentZoomLevel' = mapZoom'
        /\ currentGeographicLevel' = LevelForZoom(mapZoom')]_vars

(***************************************************************************)
(* app.js: one call of getCurrentDate, for a slider whose max attribute is *)
(* dateMaxValue and whose value is dateCurrentValue.                       *)
(***************************************************************************)
MaxSliderMax == 12

DateInit ==
    /\ dateMaxValue \in 1..MaxSliderMax
    /\ dateCurrentValue \in 0..dateMaxValue
    /\ dateResult = ""
    /\ datepc = "ready"

DateIdle ==
    /\ dateMaxValue = 1
    /\ dateCurrentValue = 0
    /\ dateResult = ""
    /\ datepc = "idle"

CallGetCurrentDate ==
    /\ datepc = "ready"
    /\ dateResult' = getCurrentDate(dateCurrentValue, dateMaxValue)
    /\ datepc' = "returned"
    /\ UNCHANGED <<dateMaxValue, dateCurrentValue, notDate>>

DateNext == CallGetCurrentDate

(***************************************************************************)
(* C30: getCurrentDate is total and order-preserving on the slider: for    *)
(* every maximum >= 1 and every value in 0..max it returns one of the six  *)
(* months, the first at value 0 and the last at value max, and no smaller  *)
(* value yields a later month.                                             *)
(***************************************************************************)
C30_DateOrderPreserving ==
    datepc = "returned" =>
        /\ dateResult \in AllDates
        /\ dateCurrentValue = 0 => dateResult = Dates[1]
        /\ dateCurrentValue = dateMaxValue => dateResult = Dates[Len(Dates)]
        /\ \A smaller \in 0..dateCurrentValue :
                LET earlier == getCurrentDate(smaller, dateMaxValue)
                IN  /\ earlier \in AllDates
                    /\ DateIndex(earlier) <= DateIndex(dateResult)

\* A slider of eight positions at its fourth: the third month.
C30_Witness ==
    /\ datepc = "returned"
    /\ dateMaxValue = 7
    /\ dateCurrentValue = 3
    /\ dateResult = "2024-03"

(***************************************************************************)
(* app.js: playback.  togglePlayPause is the click listener of             *)
(* #play-pause-btn; starting playback reads the slider once into the local *)
(* currentValue of the call, and the interval callback advances that       *)
(* local, writes it to the slider and dispatches input, whose listener     *)
(* runs updateMapData.  intervalTimers holds the active interval timers,   *)
(* each with the currentValue of its callback.                             *)
(***************************************************************************)
NoTimers == << >>

\* setInterval: the id of a new timer.
NewTimer(timers) == MinOf({id \in 1..(Cardinality(DOMAIN timers) + 1) : id \notin DOMAIN timers})

\* clearInterval
ClearInterval(timers, id) == [t \in DOMAIN timers \ {id} |-> timers[t]]

PlayInit ==
    /\ isPlaying = FALSE
    /\ playInterval = 0
    /\ intervalTimers = NoTimers

PlayIdle ==
    /\ isPlaying = FALSE
    /\ playInterval = 0
    /\ intervalTimers = NoTimers

togglePlayPause_NoClear ==
    /\ map
    /\ IF isPlaying
       THEN /\ isPlaying' = FALSE
            /\ UNCHANGED <<playInterval, intervalTimers>>
       ELSE /\ playInterval' = NewTimer(intervalTimers)
            /\ intervalTimers' = (NewTimer(intervalTimers) :> sliderValue) @@ intervalTimers
            /\ isPlaying' = TRUE
    /\ UNCHANGED <<appVars, notPlay>>

\* click on #play-pause-btn
togglePlayPause ==
    /\ map
    /\ IF isPlaying
       THEN /\ intervalTimers' = ClearInterval(intervalTimers, playInterval)
            /\ isPlaying' = FALSE
            /\ UNCHANGED playInterval
       ELSE /\ playInterval' = NewTimer(intervalTimers)
            /\ intervalTimers' = (NewTimer(intervalTimers) :> sliderValue) @@ intervalTimers
            /\ isPlaying' = TRUE
    /\ UNCHANGED <<appVars, notPlay>>

\* The callback of interval timer id: currentValue is advanced, written to
\* the slider, and the input listener runs getCurrentDate and updateMapData.
IntervalTick(id) ==
    /\ id \in DOMAIN intervalTimers
    /\ LET currentValue == (intervalTimers[id] + 1) % (SliderMax + 1)
       IN  /\ intervalTimers' = [intervalTimers EXCEPT ![id] = currentValue]
           /\ SetAndUpdate(currentGeographicLevel, currentStatisticalMethod, currentDataType,
                           currentValue)
    /\ UNCHANGED <<map, mapZoom, mapHtml, timeSeriesData, currentZoomLevel, pendingFetch,
                   isPlaying, playInterval, notPlay>>

PlayNext ==
    \/ DOMContentLoaded
    \/ \E outcome \in FetchOutcomes, collection \in Collections :
        LoadTimeSeriesDataResume(outcome, collection)
    \/ \E value \in SliderValues : TimeSliderInput(value)
    \/ togglePlayPause
    \/ \E id \in DOMAIN intervalTimers : IntervalTick(id)

(***************************************************************************)
(* C24: isPlaying is true exactly when one playback interval timer is      *)
(* active and there is never more than one; a click on the button flips    *)
(* isPlaying, so two clicks in a row lead back to paused with no timer.    *)
(***************************************************************************)
C24_PlayingIffOneTimer ==
    /\ [](/\ Cardinality(DOMAIN intervalTimers) <= 1
          /\ isPlaying <=> Cardinality(DOMAIN intervalTimers) = 1
          /\ isPlaying => DOMAIN intervalTimers = {playInterval})
    /\ [][(isPlaying' # isPlaying \/ DOMAIN intervalTimers' # DOMAIN intervalTimers) =>
            /\ isPlaying' = ~isPlaying
            /\ ~isPlaying' => intervalTimers' = NoTimers]_vars

\* Paused again after playback ran: the slider moved on and no timer is left.
C24_Witness ==
    /\ ~isPlaying
    /\ playInterval = 1
    /\ intervalTimers = NoTimers
    /\ timeSeriesData.loaded
    /\ currentLayer.made /\ currentLayer.date = Dates[Len(Dates)]

(***************************************************************************)
(* C25: during playback each tick sets the slider to one more than its     *)
(* value just before the tick, wrapping to 0 after the maximum, also when  *)
(* the user has moved the slider since the previous tick; the slider stays *)
(* within 0..max.                                                          *)
(***************************************************************************)
C25_TickAdvancesSlider ==
    /\ [](sliderValue \in 0..SliderMax)
    /\ [][(/\ DOMAIN intervalTimers' = DOMAIN intervalTimers
           /\ intervalTimers' # intervalTimers) =>
            sliderValue' = (sliderValue + 1) % (SliderMax + 1)]_vars

(***************************************************************************)
(* C23: at most one data layer is attached to the map; a data layer is     *)
(* attached exactly when currentLayer is non-null, and then it is the      *)
(* layer currentLayer refers to; and a handler that runs updateMapData     *)
(* while the data is not loaded leaves currentLayer and the map's layers   *)
(* as they were.                                                           *)
(***************************************************************************)
C23_OneLayerAttached ==
    /\ [](/\ Cardinality(mapLayers) <= 1
          /\ currentLayer.made <=> mapLayers # {}
          /\ currentLayer.made => mapLayers = {currentLayer})
    /\ [][~timeSeriesData'.loaded => UNCHANGED <<currentLayer, mapLayers>>]_vars

(***************************************************************************)
(* The served file data_demo/zip_latest.geojson: one feature per ZIP with  *)
(* properties zcta, zhvi and zori; zhvi and zori may be null.              *)
(***************************************************************************)
MaxRent == 2

\* Boston MA, Providence RI (both with ZIP prefix 02) and New York NY.
ZipCodes == <<"02101", "02903", "10001">>

ZoriValues == {Null} \cup {Num(v) : v \in 1..MaxRent}
ZhviValues(i) == {Null, Num(MaxRent + i)}

LatestFeature(zcta, zhvi, zori) == [zcta |-> zcta, zhvi |-> zhvi, zori |-> zori]
AbsentFeature == LatestFeature("", Null, Null)

\* ZIP i is either absent from the file or present with some values.
RowChoices(i) ==
    {AbsentFeature} \cup
    {LatestFeature(ZipCodes[i], h, r) : h \in ZhviValues(i), r \in ZoriValues}

ZipFiles ==
    {SelectSeq(<<a, b, c>>, LAMBDA f : f.zcta # "") :
        a \in RowChoices(1), b \in RowChoices(2), c \in RowChoices(3)}

FileInit == zipLatest \in ZipFiles
FileIdle == zipLatest = << >>

(***************************************************************************)
(* JavaScript numbers that come out of a division are kept as the pair     *)
(* numerator / denominator; 0/0 is NaN.                                    *)
(***************************************************************************)
Quot(n, d) == [n |-> n, d |-> d]

\* Math.round of a non-negative quotient (halves round up); NaN stays NaN.
MathRound(q) == IF q.d = 0 THEN Quot(0, 0) ELSE Quot((2 * q.n + q.d) \div (2 * q.d), 1)

\* x || 0 for a value x that is a number or null.
OrZero(x) == IF Truthy(x) THEN x.v ELSE 0

RECURSIVE SumOf(_)
SumOf(numbers) == IF numbers = << >> THEN 0 ELSE Head(numbers) + SumOf(Tail(numbers))

(***************************************************************************)
(* app.js: loadData and displayStats of the overview page.                 *)
(***************************************************************************)
EmptyStats ==
    [kind |-> "empty", totalZips |-> 0, avgZhvi |-> Quot(0, 1), avgZori |-> Quot(0, 1),
     shownZhvi |-> Quot(0, 1), shownZori |-> Quot(0, 1), zhviPoints |-> 0, zoriPoints |-> 0]

ErrorStats == [EmptyStats EXCEPT !.kind = "error"]

\* The record keeps avgZhvi and avgZori, the constants displayStats computes,
\* next to the rounded numbers it writes into #stats.
displayStats(features) ==
    LET zhviValues == SelectSeq([i \in 1..Len(features) |-> features[i].zhvi], Truthy)
        zoriValues == SelectSeq([i \in 1..Len(features) |-> features[i].zori], Truthy)
        avgZhvi == IF Len(zhviValues) > 0
                   THEN Quot(SumOf([i \in 1..Len(zhviValues) |-> zhviValues[i].v]),
                             Len(zhviValues))
                   ELSE Quot(0, 1)
        avgZori == IF Len(zoriValues) > 0
                   THEN Quot(SumOf([i \in 1..Len(zoriValues) |-> zoriValues[i].v]),
                             Len(zoriValues))
                   ELSE Quot(0, 1)
    IN  [kind |-> "stats", totalZips |-> Len(features),
         avgZhvi |-> avgZhvi, avgZori |-> avgZori,
         shownZhvi |-> MathRound(avgZhvi), shownZori |-> MathRound(avgZori),
         zhviPoints |-> Len(zhviValues), zoriPoints |-> Len(zoriValues)]

\* The call loadData() at the end of the script: up to the await of fetch.
loadData ==
    /\ loadDataPc = "start"
    /\ loadDataPc' = "fetching"
    /\ UNCHANGED <<statsHtml, pdLoadDataPc, pdStatsHtml, pdTableRows, notOverview>>

\* The rest of loadData once the fetch has settled.  Every outcome but "ok"
\* throws inside the try block (rejected fetch, !response.ok, content type
\* check, response.json()), and the catch block writes the error into #stats.
LoadDataResume(outcome) ==
    /\ loadDataPc = "fetching"
    /\ loadDataPc' = outcome
    /\ statsHtml' = IF outcome = "ok" THEN displayStats(zipLatest) ELSE ErrorStats
    /\ UNCHANGED <<pdLoadDataPc, pdStatsHtml, pdTableRows, notOverview>>

(***************************************************************************)
(* Second script: loadData, displayStats and displayDataTable of the       *)
(* overview page.                                                          *)
(***************************************************************************)
\* zipData before filter and sort: zhvi || 0, and zori 0 for null.
ZipDataItem(feature) ==
    [zip |-> feature.zcta, zhvi |-> OrZero(feature.zhvi),
     zori |-> IF feature.zori = Null THEN 0 ELSE feature.zori.v]

\* .sort((a, b) => b.zhvi - a.zhvi): descending, equal items keep their order.
RECURSIVE SortByZhviDesc(_)
SortByZhviDesc(items) ==
    IF Len(items) <= 1 THEN items
    ELSE LET first == Head(items)
             rest == SortByZhviDesc(Tail(items))
             k == Cardinality({i \in 1..Len(rest) : rest[i].zhvi > first.zhvi})
         IN  SubSeq(rest, 1, k) \o <<first>> \o SubSeq(rest, k + 1, Len(rest))

ZipData(features) ==
    SortByZhviDesc(SelectSeq([i \in 1..Len(features) |-> ZipDataItem(features[i])],
                             LAMBDA item : item.zhvi > 0))

NegInfinity == [t |-> "-Infinity", v |-> 0]
PosInfinity == [t |-> "Infinity", v |-> 0]

\* Math.max(...) and Math.min(...) of a list of numbers.
MathMax(numbers) ==
    IF numbers = << >> THEN NegInfinity
    ELSE Num(CHOOSE x \in {numbers[i] : i \in 1..Len(numbers)} :
                \A i \in 1..Len(numbers) : numbers[i] <= x)
MathMin(numbers) ==
    IF numbers = << >> THEN PosInfinity
    ELSE Num(CHOOSE x \in {numbers[i] : i \in 1..Len(numbers)} :
                \A i \in 1..Len(numbers) : numbers[i] >= x)

PdEmptyStats ==
    [kind |-> "empty", totalZips |-> 0, avgValue |-> Quot(0, 1),
     maxValue |-> Num(0), minValue |-> Num(0)]

PdErrorStats == [PdEmptyStats EXCEPT !.kind = "error"]

\* displayStats of the second script, on the zipData list.
pdDisplayStats(data) ==
    LET zhvis == [i \in 1..Len(data) |-> data[i].zhvi]
    IN  [kind |-> "stats", totalZips |-> Len(data),
         avgValue |-> Quot(SumOf(zhvis), Len(data)),
         maxValue |-> MathMax(zhvis), minValue |-> MathMin(zhvis)]

\* The DOMContentLoaded handler of the second script: loadData up to the fetch.
pdLoadData ==
    /\ pdLoadDataPc = "start"
    /\ pdLoadDataPc' = "fetching"
    /\ UNCHANGED <<loadDataPc, statsHtml, pdStatsHtml, pdTableRows, notOverview>>

\* The rest of that loadData: stats and table on success, the error message
\* in #stats on every thrown error.
PdLoadDataResume(outcome) ==
    /\ pdLoadDataPc = "fetching"
    /\ pdLoadDataPc' = outcome
    /\ IF outcome = "ok"
       THEN /\ pdStatsHtml' = pdDisplayStats(ZipData(zipLatest))
            /\ pdTableRows' = ZipData(zipLatest)
       ELSE /\ pdStatsHtml' = PdErrorStats
            /\ UNCHANGED pdTableRows
    /\ UNCHANGED <<loadDataPc, statsHtml, notOverview>>

OverviewInit ==
    /\ loadDataPc = "start"
    /\ statsHtml = EmptyStats
    /\ pdLoadDataPc = "start"
    /\ pdStatsHtml = PdEmptyStats
    /\ pdTableRows = << >>

OverviewIdle ==
    /\ loadDataPc = "idle"
    /\ statsHtml = EmptyStats
    /\ pdLoadDataPc = "idle"
    /\ pdStatsHtml = PdEmptyStats
    /\ pdTableRows = << >>

OverviewNext ==
    \/ loadData
    \/ \E outcome \in FetchOutcomes : LoadDataResume(outcome)
    \/ pdLoadData
    \/ \E outcome \in FetchOutcomes : PdLoadDataResume(outcome)

(***************************************************************************)
(* Second script: the progressive-detail Time Series page.  This part      *)
(* covers opening the page and the state-level load (initializeMap,        *)
(* loadTimeSeriesData, loadStateLevelData, initializeTimeSlider and the    *)
(* first updateMapData); the map stays at the zoom of setView, 4, so       *)
(* loadDetailedData finds zoom < 8 and fetches nothing.                    *)
(***************************************************************************)
MaxOpens == 2

PdDates == <<"2024-01", "2024-02", "2024-03", "2024-04", "2024-05", "2024-06">>

\* timeValues of a state feature: the average times 0.95, 0.97, 0.99, 1.01,
\* 1.03 and 1, in hundredths.
PdFactors == <<95, 97, 99, 101, 103, 100>>

StateCodeOf(zcta) == SubSeq(zcta, 1, 2)

DigitOf ==
    ("0" :> 0) @@ ("1" :> 1) @@ ("2" :> 2) @@ ("3" :> 3) @@ ("4" :> 4) @@
    ("5" :> 5) @@ ("6" :> 6) @@ ("7" :> 7) @@ ("8" :> 8) @@ ("9" :> 9)

\* A two-digit key without a leading zero is an array index of the object
\* stateData; Object.entries lists those first, in ascending order, and the
\* other keys after them in insertion order.
IsIndexKey(code) == SubSeq(code, 1, 1) # "0"
KeyNumber(code) == 10 * DigitOf[SubSeq(code, 1, 1)] + DigitOf[SubSeq(code, 2, 2)]

RECURSIVE Ascending(_)
Ascending(codes) ==
    IF codes = {} THEN << >>
    ELSE LET least == CHOOSE c \in codes : \A d \in codes : KeyNumber(c) <= KeyNumber(d)
         IN  <<least>> \o Ascending(codes \ {least})

RECURSIVE InsertionOrder(_, _)
InsertionOrder(features, seen) ==
    IF features = << >> THEN << >>
    ELSE LET code == StateCodeOf(Head(features).zcta)
         IN  IF code \in seen \/ IsIndexKey(code)
             THEN InsertionOrder(Tail(features), seen)
             ELSE <<code>> \o InsertionOrder(Tail(features), seen \cup {code})

EntriesOrder(features) ==
    LET codes == {StateCodeOf(features[i].zcta) : i \in 1..Len(features)}
    IN  Ascending({c \in codes : IsIndexKey(c)}) \o InsertionOrder(features, {})

\* The entry stateData[stateCode] after the forEach over data.features.
StateEntry(features, stateCode) ==
    LET zips == SelectSeq(features, LAMBDA f : StateCodeOf(f.zcta) = stateCode)
    IN  [zips |-> zips,
         totalZhvi |-> SumOf([i \in 1..Len(zips) |-> OrZero(zips[i].zhvi)]),
         totalZori |-> SumOf([i \in 1..Len(zips) |-> OrZero(zips[i].zori)]),
         count |-> Len(zips)]

\* One element of stateFeatures.  The time series is stored in
\* properties.timeValues; the feature itself has no timeValues field.
StateFeature(features, stateCode) ==
    LET data == StateEntry(features, stateCode)
        avgZhvi == Quot(data.totalZhvi, data.count)
        avgZori == Quot(data.totalZori, data.count)
    IN  [timeValues |-> Undefined,
         properties |->
            [stateCode |-> stateCode, avgZhvi |-> avgZhvi, avgZori |-> avgZori,
             zipCount |-> data.count,
             timeValues |->
                [i \in 1..Len(PdDates) |->
                    [date |-> PdDates[i],
                     zhvi |-> Quot(avgZhvi.n * PdFactors[i], avgZhvi.d * 100),
                     zori |-> Quot(avgZori.n * PdFactors[i], avgZori.d * 100)]]]]

StateFeatures(features) ==
    LET order == EntriesOrder(features)
    IN  [i \in 1..Len(order) |-> StateFeature(features, order[i])]

NoStates == [loaded |-> FALSE, dates |-> << >>, features |-> << >>]
StatesOf(features) == [loaded |-> TRUE, dates |-> PdDates, features |-> StateFeatures(features)]

PdNoLayer == [made |-> FALSE, overlay |-> "", date |-> "", dataType |-> "", features |-> << >>]

\* feature.properties.zcta || feature.properties.stateCode
FeatureId(properties) ==
    IF "zcta" \in DOMAIN properties THEN properties.zcta ELSE properties.stateCode

\* createZipLayer and createH3Layer: a feature is rendered when it has a
\* timeValues entry for the date; the value shown is timeData[dataType] || 0.
pdCreateLayer(overlayType, date, dataType, dataSource) ==
    LET kept == SelectSeq(dataSource.features, LAMBDA f : f.timeValues # Undefined)
    IN  [made |-> TRUE, overlay |-> overlayType, date |-> date, dataType |-> dataType,
         features |-> [i \in 1..Len(kept) |->
                          [id |-> FeatureId(kept[i].properties), date |-> date]]]

PdOverlayTypes == {"zip", "h3"}

\* The detailed ZIP data is loaded from zoom 8 on; the map starts at zoom 4.
MaxFetches == 2
DetailZoom == 8
PdInitialZoom == 4

\* The page not yet in use: no playback, the map at its first zoom, nothing
\* fetched.
PdIdle ==
    /\ pdIsPlaying = FALSE
    /\ pdPlayInterval = 0
    /\ pdIntervalTimers = NoTimers
    /\ pdMapZoom = PdInitialZoom
    /\ pdCurrentZoomLevel = PdInitialZoom
    /\ dataCacheZipcodes = NoStates
    /\ pendingUpdates = << >>
    /\ detailFetches = 0
    /\ pdLastEvent = "none"

ProgInit ==
    /\ currentPage = "overview"
    /\ pageOpens = 0
    /\ pendingInit = 0
    /\ pendingStateFetch = 0
    /\ stateLoadOutcome = "none"
    /\ pdMap = FALSE
    /\ pdMapHtml = ""
    /\ pdTimeSeriesData = NoStates
    /\ dataCache = [states |-> NoStates]
    /\ pdCurrentLayer = PdNoLayer
    /\ pdMapLayers = {}
    /\ pdSliderValue = 0
    /\ pdDataType \in DataTypes
    /\ pdOverlayType \in PdOverlayTypes
    /\ controlListeners = 0
    /\ sliderListeners = 0
    /\ consoleErrors = {}
    /\ PdIdle

ProgIdle ==
    /\ currentPage = "overview"
    /\ pageOpens = 0
    /\ pendingInit = 0
    /\ pendingStateFetch = 0
    /\ stateLoadOutcome = "none"
    /\ pdMap = FALSE
    /\ pdMapHtml = ""
    /\ pdTimeSeriesData = NoStates
    /\ dataCache = [states |-> NoStates]
    /\ pdCurrentLayer = PdNoLayer
    /\ pdMapLayers = {}
    /\ pdSliderValue = 0
    /\ pdDataType = "zhvi"
    /\ pdOverlayType = "zip"
    /\ controlListeners = 0
    /\ sliderListeners = 0
    /\ consoleErrors = {}
    /\ PdIdle

PageNames == {"overview", "timeseries"}

\* switchPage (the later definition, which replaces the earlier one): showing
\* the Time Series page arms a timer that runs initializeTimeSeriesPage.
switchPage(pageName) ==
    /\ currentPage' = pageName
    /\ IF pageName = "timeseries"
       THEN /\ pageOpens < MaxOpens
            /\ pageOpens' = pageOpens + 1
            /\ pendingInit' = pendingInit + 1
       ELSE UNCHANGED <<pageOpens, pendingInit>>
    /\ UNCHANGED <<pendingStateFetch, stateLoadOutcome, pdMap, pdMapHtml, pdTimeSeriesData,
                   dataCache, pdCurrentLayer, pdMapLayers, pdSliderValue, pdDataType,
                   pdOverlayType, controlListeners, sliderListeners, consoleErrors,
                   pdInUse, notProg>>

\* The timer callback: initializeMap (once), loadTimeSeriesData up to the
\* fetch of loadStateLevelData, and the listeners on the controls.
initializeTimeSeriesPage ==
    /\ pendingInit > 0
    /\ pendingInit' = pendingInit - 1
    /\ pdMap' = TRUE
    /\ pdMapHtml' = "map"
    /\ pendingStateFetch' = pendingStateFetch + 1
    /\ controlListeners' = controlListeners + 1
    /\ UNCHANGED <<currentPage, pageOpens, stateLoadOutcome, pdTimeSeriesData, dataCache,
                   pdCurrentLayer, pdMapLayers, pdSliderValue, pdDataType, pdOverlayType,
                   sliderListeners, consoleErrors, pdInUse, notProg>>

\* loadStateLevelData never reads response.ok or the content type: the body
\* is parsed whenever the fetch resolves.  "ok" and "content type" carry the
\* file; an error page ("http status") and a broken body ("parse error") make
\* response.json() reject, and "network error" makes fetch reject.
StateLoadParses(outcome) == outcome \in {"ok", "content type"}

\* The rest of loadTimeSeriesData once the fetch of loadStateLevelData has
\* settled.  The catch block of loadStateLevelData only logs, so the call
\* returns normally; initializeTimeSlider then reads timeSeriesData.dates,
\* which throws when timeSeriesData is still null, and the catch block of
\* loadTimeSeriesData only logs as well.  Otherwise the slider is set to
\* the latest date and updateMapData replaces the data layer.
LoadStateLevelDataResume(outcome) ==
    /\ pendingStateFetch > 0
    /\ pendingStateFetch' = pendingStateFetch - 1
    /\ stateLoadOutcome' = outcome
    /\ LET data == IF StateLoadParses(outcome) THEN StatesOf(zipLatest)
                   ELSE pdTimeSeriesData
           logged == IF StateLoadParses(outcome) THEN consoleErrors
                     ELSE consoleErrors \cup {"Error loading state data"}
           layer == pdCreateLayer(pdOverlayType, data.dates[Len(data.dates)],
                                  pdDataType, data)
       IN  /\ pdTimeSeriesData' = data
           /\ dataCache' = IF StateLoadParses(outcome) THEN [states |-> data]
                           ELSE dataCache
           /\ IF data.loaded
              THEN /\ consoleErrors' = logged
                   /\ pdSliderValue' = Len(data.dates) - 1
                   /\ sliderListeners' = sliderListeners + 1
                   /\ pdCurrentLayer' = layer
                   /\ pdMapLayers' = (pdMapLayers \ {pdCurrentLayer}) \cup {layer}
              ELSE /\ consoleErrors' = logged \cup {"Error loading time series data"}
                   /\ UNCHANGED <<pdSliderValue, sliderListeners, pdCurrentLayer,
                                  pdMapLayers>>
    /\ UNCHANGED <<currentPage, pageOpens, pendingInit, pdMap, pdMapHtml, pdDataType,
                   pdOverlayType, controlListeners, pdInUse, notProg>>

ProgNext ==
    \/ \E pageName \in PageNames : switchPage(pageName)
    \/ initializeTimeSeriesPage
    \/ \E outcome \in FetchOutcomes : LoadStateLevelDataResume(outcome)

(***************************************************************************)
(* Second script: the Time Series page in use, after the page has been     *)
(* opened and the state-level load has ended: zoom events, the controls,   *)
(* the slider, playback, and updateMapData with the detailed ZIP load.     *)
(* updateMapData reads the controls, then awaits loadDetailedData.  When   *)
(* loadDetailedData has nothing to fetch, the rest of updateMapData runs   *)
(* as a microtask, before any other event; when it fetches, the call       *)
(* stays pending with the date, data type and overlay type it has read     *)
(* until its fetch settles, and pending calls may end in any order.        *)
(***************************************************************************)

PdZooms == {DetailZoom - 1, DetailZoom}
\* The values the user drags the slider to: the first date and the one
\* before the last.
PdSliderValues == {0, Len(PdDates) - 2}

\* The file served during the session: two ZIPs, one without a rent value.
DetailFile ==
    <<LatestFeature(ZipCodes[1], Num(MaxRent + 1), Num(1)),
      LatestFeature(ZipCodes[3], Num(MaxRent + 3), Null)>>

\* dataCache.zipcodes after a successful detailed load; every feature of the
\* file is taken to be within the bounds of the map.  A null zhvi times a
\* factor is 0; the last date takes zhvi as it is.
DetailFeature(feature) ==
    [timeValues |->
        [i \in 1..Len(PdDates) |->
            [date |-> PdDates[i],
             zhvi |-> IF i = Len(PdDates) /\ feature.zhvi = Null THEN Null
                      ELSE Quot(OrZero(feature.zhvi) * PdFactors[i], 100),
             zori |-> Quot(OrZero(feature.zori) * PdFactors[i], 100)]],
     properties |-> [zcta |-> feature.zcta]]

ZipcodesOf(features) ==
    [loaded |-> TRUE, dates |-> PdDates,
     features |-> [i \in 1..Len(features) |-> DetailFeature(features[i])]]

\* The page after `opens` openings whose state-level loads have all ended,
\* with the file parsed (loaded) or not, and the two selects untouched.
PdInit ==
    \E opens \in 1..MaxOpens, loaded \in BOOLEAN :
        LET data == IF loaded THEN StatesOf(zipLatest) ELSE NoStates
            layer == IF loaded
                     THEN pdCreateLayer("zip", PdDates[Len(PdDates)], "zhvi", data)
                     ELSE PdNoLayer
        IN  /\ zipLatest = DetailFile
            /\ currentPage = "timeseries"
            /\ pageOpens = opens
            /\ pendingInit = 0
            /\ pendingStateFetch = 0
            /\ stateLoadOutcome = IF loaded THEN "ok" ELSE "network error"
            /\ pdMap = TRUE
            /\ pdMapHtml = "map"
            /\ pdTimeSeriesData = data
            /\ dataCache = [states |-> data]
            /\ pdCurrentLayer = layer
            /\ pdMapLayers = IF loaded THEN {layer} ELSE {}
            /\ pdSliderValue = IF loaded THEN Len(PdDates) - 1 ELSE 0
            /\ pdDataType = "zhvi"
            /\ pdOverlayType = "zip"
            /\ controlListeners = opens
            /\ sliderListeners = IF loaded THEN opens ELSE 0
            /\ consoleErrors = IF loaded THEN {}
                               ELSE {"Error loading state data",
                                     "Error loading time series data"}
            /\ pdIsPlaying = FALSE
            /\ pdPlayInterval = 0
            /\ pdIntervalTimers = NoTimers
            /\ pdMapZoom = PdInitialZoom
            /\ pdCurrentZoomLevel = PdInitialZoom
            /\ dataCacheZipcodes = NoStates
            /\ pendingUpdates = << >>
            /\ detailFetches = 0
            /\ pdLastEvent = "none"

\* The data source updateMapData picks after loadDetailedData.
DataSource(zoomLevel, zipcodes) ==
    IF zoomLevel >= DetailZoom /\ zipcodes.loaded THEN zipcodes ELSE pdTimeSeriesData

\* The layers once updateMapData has replaced the held layer.
ReplaceLayer(layer) ==
    /\ pdCurrentLayer' = layer
    /\ pdMapLayers' = (pdMapLayers \ {pdCurrentLayer}) \cup {layer}

\* n calls of updateMapData started by one event that leaves the controls at
\* slider, dataType and overlayType and the map at zoom.  Each call that finds
\* zoom >= 8 and no dataCache.zipcodes starts a fetch of its own.
UpdateMapDataCalls(n, slider, dataType, overlayType, zoom, zoomLevel) ==
    IF n = 0 \/ ~pdTimeSeriesData.loaded
    THEN UNCHANGED <<pdCurrentLayer, pdMapLayers, pendingUpdates, detailFetches>>
    ELSE IF zoom >= DetailZoom /\ ~dataCacheZipcodes.loaded
    THEN /\ detailFetches + n <= MaxFetches
         /\ detailFetches' = detailFetches + n
         /\ pendingUpdates' =
                pendingUpdates \o
                [i \in 1..n |-> [date |-> PdDates[slider + 1], dataType |-> dataType,
                                 overlayType |-> overlayType]]
         /\ UNCHANGED <<pdCurrentLayer, pdMapLayers>>
    ELSE /\ ReplaceLayer(pdCreateLayer(overlayType, PdDates[slider + 1], dataType,
                                       DataSource(zoomLevel, dataCacheZipcodes)))
         /\ UNCHANGED <<pendingUpdates, detailFetches>>

\* zoomend with the map at zoom newZoom
PdZoomEnd(newZoom) ==
    /\ pdMapZoom' = newZoom
    /\ pdLastEvent' = "other"
    /\ IF newZoom - pdCurrentZoomLevel >= 1 \/ pdCurrentZoomLevel - newZoom >= 1
       THEN /\ pdCurrentZoomLevel' = newZoom
            /\ UpdateMapDataCalls(1, pdSliderValue, pdDataType, pdOverlayType, newZoom, newZoom)
       ELSE UNCHANGED <<pdCurrentZoomLevel, pdCurrentLayer, pdMapLayers, pendingUpdates,
                        detailFetches>>
    /\ UNCHANGED <<pdSliderValue, pdDataType, pdOverlayType, pdIsPlaying, pdPlayInterval,
                   pdIntervalTimers, dataCacheZipcodes, consoleErrors, pdFixed, notProg>>

\* input on #time-slider by the user: every listener added by
\* initializeTimeSlider runs updateMapData.
PdSliderInput(value) ==
    /\ pdSliderValue' = value
    /\ pdLastEvent' = "other"
    /\ UpdateMapDataCalls(sliderListeners, value, pdDataType, pdOverlayType, pdMapZoom,
                          pdCurrentZoomLevel)
    /\ UNCHANGED <<pdMapZoom, pdCurrentZoomLevel, pdDataType, pdOverlayType, pdIsPlaying,
                   pdPlayInterval, pdIntervalTimers, dataCacheZipcodes, consoleErrors,
                   pdFixed, notProg>>

\* change on #data-type.  The listener is updateMapData itself, and adding the
\* same function again on a later opening adds no second listener.
PdDataTypeChange(dataType) ==
    /\ pdDataType' = dataType
    /\ pdLastEvent' = "other"
    /\ UpdateMapDataCalls(1, pdSliderValue, dataType, pdOverlayType, pdMapZoom,
                          pdCurrentZoomLevel)
    /\ UNCHANGED <<pdMapZoom, pdCurrentZoomLevel, pdSliderValue, pdOverlayType, pdIsPlaying,
                   pdPlayInterval, pdIntervalTimers, dataCacheZipcodes, consoleErrors,
                   pdFixed, notProg>>

\* The playback state: isPlaying, playInterval and the active timers.
PlayState(playing, interval, timers) ==
    [isPlaying |-> playing, playInterval |-> interval, timers |-> timers]

playAnimation(st) ==
    IF ~pdTimeSeriesData.loaded THEN st
    ELSE PlayState(TRUE, NewTimer(st.timers),
                   (NewTimer(st.timers) :> pdSliderValue) @@ st.timers)

pauseAnimation_KeepsTimer(st) == PlayState(FALSE, 0, st.timers)

pauseAnimation(st) ==
    PlayState(FALSE, 0,
              IF st.playInterval # 0 THEN ClearInterval(st.timers, st.playInterval)
              ELSE st.timers)

\* The click listeners of #play-pause-btn, one per opening of the page, run
\* one after the other.
RECURSIVE ClickListeners(_, _)
ClickListeners(n, st) ==
    IF n = 0 THEN st
    ELSE ClickListeners(n - 1, IF st.isPlaying THEN pauseAnimation(st) ELSE playAnimation(st))

\* click on #play-pause-btn
PdPlayPauseClick ==
    /\ LET st == ClickListeners(controlListeners,
                                PlayState(pdIsPlaying, pdPlayInterval, pdIntervalTimers))
       IN  /\ pdIsPlaying' = st.isPlaying
           /\ pdPlayInterval' = st.playInterval
           /\ pdIntervalTimers' = st.timers
    /\ pdLastEvent' = "click"
    /\ UNCHANGED <<pdMapZoom, pdCurrentZoomLevel, pdSliderValue, pdDataType, pdOverlayType,
                   pdCurrentLayer, pdMapLayers, pendingUpdates, detailFetches,
                   dataCacheZipcodes, consoleErrors, pdFixed, notProg>>

\* The callback of interval timer id (playAnimation): currentIndex is
\* advanced and written to the slider, input is dispatched, and at the last
\* date pauseAnimation ends the playback.
PdIntervalTick(id) ==
    /\ id \in DOMAIN pdIntervalTimers
    /\ LET currentIndex == (pdIntervalTimers[id] + 1) % Len(pdTimeSeriesData.dates)
           st == PlayState(pdIsPlaying, pdPlayInterval,
                           [pdIntervalTimers EXCEPT ![id] = currentIndex])
           after == IF currentIndex = Len(pdTimeSeriesData.dates) - 1
                    THEN pauseAnimation(st) ELSE st
       IN  /\ pdSliderValue' = currentIndex
           /\ UpdateMapDataCalls(sliderListeners, currentIndex, pdDataType, pdOverlayType,
                                 pdMapZoom, pdCurrentZoomLevel)
           /\ pdIsPlaying' = after.isPlaying
           /\ pdPlayInterval' = after.playInterval
           /\ pdIntervalTimers' = after.timers
    /\ pdLastEvent' = "tick"
    /\ UNCHANGED <<pdMapZoom, pdCurrentZoomLevel, pdDataType, pdOverlayType,
                   dataCacheZipcodes, consoleErrors, pdFixed, notProg>>

\* The fetch of the i-th pending call settles: loadDetailedData fills
\* dataCache.zipcodes or logs the error, and the call goes on with the values
\* it read before the await.
LoadDetailedDataResume(i, outcome) ==
    /\ i \in 1..Len(pendingUpdates)
    /\ LET call == pendingUpdates[i]
           zipcodes == IF StateLoadParses(outcome) THEN ZipcodesOf(zipLatest)
                       ELSE dataCacheZipcodes
       IN  /\ pendingUpdates' = SubSeq(pendingUpdates, 1, i - 1) \o
                                SubSeq(pendingUpdates, i + 1, Len(pendingUpdates))
           /\ dataCacheZipcodes' = zipcodes
           /\ consoleErrors' = IF StateLoadParses(outcome) THEN consoleErrors
                               ELSE consoleErrors \cup {"Error loading detailed data"}
           /\ ReplaceLayer(pdCreateLayer(call.overlayType, call.date, call.dataType,
                                         DataSource(pdCurrentZoomLevel, zipcodes)))
    /\ pdLastEvent' = "other"
    /\ UNCHANGED <<pdMapZoom, pdCurrentZoomLevel, pdSliderValue, pdDataType, pdOverlayType,
                   pdIsPlaying, pdPlayInterval, pdIntervalTimers, detailFetches, pdFixed,
                   notProg>>

PdNext ==
    \/ \E newZoom \in PdZooms : PdZoomEnd(newZoom)
    \/ \E value \in PdSliderValues : PdSliderInput(value)
    \/ \E dataType \in DataTypes : PdDataTypeChange(dataType)
    \/ PdPlayPauseClick
    \/ \E id \in DOMAIN pdIntervalTimers : PdIntervalTick(id)
    \/ \E i \in 1..MaxFetches, outcome \in FetchOutcomes : LoadDetailedDataResume(i, outcome)

\* The page in use below the detail zoom while nobody pauses the playback.
PdPlayNext ==
    \/ PdZoomEnd(DetailZoom - 1)
    \/ \E value \in PdSliderValues : PdSliderInput(value)
    \/ \E dataType \in DataTypes : PdDataTypeChange(dataType)
    \/ ~pdIsPlaying /\ PdPlayPauseClick
    \/ \E id \in DOMAIN pdIntervalTimers : PdIntervalTick(id)

(***************************************************************************)
(* C26: a playback started by playAnimation with the data loaded stops by  *)
(* itself: while the timer keeps firing and nobody pauses, the slider      *)
(* reaches the last date index, isPlaying is false and no interval timer   *)
(* remains, from every start index (from the last one after a wrap).       *)
(***************************************************************************)
LastIndex == Len(PdDates) - 1

PlaybackStopped ==
    /\ ~pdIsPlaying
    /\ pdIntervalTimers = NoTimers
    /\ pdSliderValue = LastIndex

C26_PlaybackStops == pdIsPlaying ~> PlaybackStopped

\* A tick has just ended the playback.
C26_Witness == PlaybackStopped /\ pdLastEvent = "tick" /\ pdPlayInterval = 0

(***************************************************************************)
(* C27: with the data loaded, one click on the play/pause button flips     *)
(* isPlaying exactly once, however many times the page was opened.         *)
(***************************************************************************)
C27_ClickFlipsOnce ==
    [][(pdTimeSeriesData.loaded /\ pdLastEvent' = "click") =>
        pdIsPlaying' = ~pdIsPlaying]_vars

(***************************************************************************)
(* C28: once dataCache.zipcodes is filled or a fetch of the detailed ZIP   *)
(* data is in flight, no further fetch is started, so the data is fetched  *)
(* at most once.                                                           *)
(***************************************************************************)
C28_DetailFetchedOnce ==
    /\ [](detailFetches <= 1)
    /\ [][(dataCacheZipcodes.loaded \/ pendingUpdates # << >>) =>
            detailFetches' = detailFetches]_vars

(***************************************************************************)
(* C29: once every pending updateMapData call has finished, exactly one    *)
(* data layer is on the map, and it shows the date and the data type that  *)
(* are selected.                                                           *)
(***************************************************************************)
C29_LayerShowsSelection ==
    (pdTimeSeriesData.loaded /\ pendingUpdates = << >>) =>
        /\ pdMapLayers = {pdCurrentLayer}
        /\ pdCurrentLayer.made
        /\ pdCurrentLayer.date = PdDates[pdSliderValue + 1]
        /\ pdCurrentLayer.dataType = pdDataType

(***************************************************************************)
(* C8: every failed data load ends with an error message in the UI region  *)
(* that would show the data: #stats for the two loadData functions, #map   *)
(* for the two loadTimeSeriesData functions (the second of which loads     *)
(* through loadStateLevelData).                                            *)
(***************************************************************************)
LoadFailures == FetchOutcomes \ {"ok"}

LoadDataErrorShown == loadDataPc \in LoadFailures => statsHtml.kind = "error"
PdLoadDataErrorShown == pdLoadDataPc \in LoadFailures => pdStatsHtml.kind = "error"
AppLoadErrorShown == lastError = "load error caught" => mapHtml = "error"
StateLoadErrorShown == stateLoadOutcome \in LoadFailures => pdMapHtml = "error"

C8_LoadFailureShown ==
    /\ LoadDataErrorShown
    /\ PdLoadDataErrorShown
    /\ AppLoadErrorShown
    /\ StateLoadErrorShown

(***************************************************************************)
(* C10: an average of rent values leaves the null values out of the sum    *)
(* and out of the divisor: avgZori of displayStats is the mean of the      *)
(* non-null zori values of the file, and avgZori of every state feature    *)
(* is the mean of the non-null zori values of the ZIPs of its group.       *)
(***************************************************************************)
NonNullZori(features) ==
    SelectSeq([i \in 1..Len(features) |-> features[i].zori], LAMBDA v : v # Null)

\* avg is the mean of the non-null zori values of features, if there are any.
IsMeanOfNonNullZori(avg, features) ==
    LET values == NonNullZori(features)
    IN  Len(values) > 0 =>
            /\ avg.d # 0
            /\ avg.n * Len(values) = SumOf([i \in 1..Len(values) |-> values[i].v]) * avg.d

C10_NullRentNotZero ==
    /\ statsHtml.kind = "stats" => IsMeanOfNonNullZori(statsHtml.avgZori, zipLatest)
    /\ \A i \in 1..Len(pdTimeSeriesData.features) :
        LET properties == pdTimeSeriesData.features[i].properties
        IN  IsMeanOfNonNullZori(properties.avgZori,
                StateEntry(zipLatest, properties.stateCode).zips)

(***************************************************************************)
(* C14: state grouping follows the ZIP-to-state table.  In the grouping of *)
(* loadStateLevelData the ZIPs of one group are all of one state, and two  *)
(* ZIPs of the file that are of the same state are in the same group.      *)
(***************************************************************************)
ZIP_TO_STATE ==
    ("02101" :> "MA") @@ ("02102" :> "MA") @@ ("02903" :> "RI") @@ ("10001" :> "NY")

C14_GroupsFollowStateTable ==
    \A i \in 1..Len(pdTimeSeriesData.features) :
        LET zips == StateEntry(zipLatest, pdTimeSeriesData.features[i].properties.stateCode).zips
        IN  /\ \A a, b \in 1..Len(zips) :
                    ZIP_TO_STATE[zips[a].zcta] = ZIP_TO_STATE[zips[b].zcta]
            /\ \A a \in 1..Len(zips), b \in 1..Len(zipLatest) :
                    ZIP_TO_STATE[zips[a].zcta] = ZIP_TO_STATE[zipLatest[b].zcta] =>
                        \E c \in 1..Len(zips) : zips[c].zcta = zipLatest[b].zcta

(***************************************************************************)
(* The pipeline scripts: start_testing, build_multi_level_system and the   *)
(* get-coordinates script.  A script is a list of commands; a command is   *)
(* skipped when the files named by its test all exist (an empty test: the  *)
(* command always runs), and writes its files when it succeeds.            *)
(***************************************************************************)
MaxRuns == 2

coordinates_json == "data_demo/zip_coordinates.json"

Command(cmd, unless, writes) ==
    [cmd |-> cmd, kind |-> "command", unless |-> unless, writes |-> writes]

\* required_files of build_multi_level_system, Step 4.
required_files ==
    <<coordinates_json,
      "data_demo/zip_latest.geojson",
      "data_demo/aggregated/regions.geojson",
      "data_demo/aggregated/state_regions.geojson",
      "data_demo/aggregated/states.geojson",
      "data_demo/aggregated/config.json">>

RequiredFiles == {required_files[i] : i \in 1..Len(required_files)}

\* start_testing: set -e, so the first command that fails ends the script.
start_testing ==
    [errexit |-> TRUE, needsVenv |-> FALSE,
     steps |->
        <<Command("python3 -m venv venv", {"venv"}, {"venv"}),
          Command("source venv/bin/activate", {}, {}),
          Command("pip install -r requirements.txt", {"venv/packages"}, {"venv/packages"}),
          Command("mkdir -p data_raw", {"data_raw"}, {"data_raw"}),
          Command("curl zhvi.csv zori.csv", {"data_raw/zhvi.csv", "data_raw/zori.csv"},
                  {"data_raw/zhvi.csv", "data_raw/zori.csv"}),
          Command("python ingest/zillow_ingest.py", {}, {}),
          Command("python transform/run_sql.py", {}, {}),
          Command("python transform/export_zip_geojson.py", {},
                  {"data_demo/zip_latest.geojson"}),
          Command("python transform/project_to_h3.py", {},
                  {"data_demo/grid_latest.geojson"})>>]

\* build_multi_level_system: no set -e; it stops early only without venv,
\* and its status comes from the check of required_files at the end.
build_multi_level_system ==
    [errexit |-> FALSE, needsVenv |-> TRUE,
     steps |->
        <<Command("source venv/bin/activate", {}, {}),
          Command("pip install requests", {}, {}),
          Command("python transform/fetch_zip_coordinates_fast.py", {coordinates_json},
                  {coordinates_json}),
          Command("python transform/update_geojson_with_coordinates.py", {},
                  {"data_demo/zip_latest.geojson"}),
          Command("python transform/create_multi_level_aggregation.py", {},
                  RequiredFiles \ {coordinates_json, "data_demo/zip_latest.geojson"}),
          [cmd |-> "verify required_files", kind |-> "verify", unless |-> {},
           writes |-> {}]>>]

\* The get-coordinates script: no set -e, the fetch is not guarded.
get_coordinates ==
    [errexit |-> FALSE, needsVenv |-> TRUE,
     steps |->
        <<Command("source venv/bin/activate", {}, {}),
          Command("pip install requests", {}, {}),
          Command("python transform/fetch_zip_coordinates.py", {}, {coordinates_json}),
          Command("python transform/update_geojson_with_coordinates.py", {},
                  {"data_demo/zip_latest.geojson"})>>]

ScriptTable ==
    [start_testing |-> start_testing,
     build_multi_level_system |-> build_multi_level_system,
     get_coordinates |-> get_coordinates]

ScriptNames == DOMAIN ScriptTable

\* The file system before the first run: with or without venv and the
\* coordinate table, with or without the output of an earlier build.
InitialFiles ==
    {S \cup T : S \in SUBSET {"venv", coordinates_json},
                T \in {{}, RequiredFiles \ {coordinates_json}}}

PipeInit ==
    /\ script = "none"
    /\ pipepc = 0
    /\ exitStatus = "none"
    /\ executed = << >>
    /\ files \in InitialFiles
    /\ filesAtStart = {}
    /\ runs = 0

PipeIdle ==
    /\ script = "none"
    /\ pipepc = 0
    /\ exitStatus = "none"
    /\ executed = << >>
    /\ files = {}
    /\ filesAtStart = {}
    /\ runs = 0

\* A script is started once the previous one has ended.  Without venv the
\* two later scripts print the hint and exit 1 at once.
StartScript(name) ==
    /\ exitStatus # "running"
    /\ runs < MaxRuns
    /\ runs' = runs + 1
    /\ script' = name
    /\ executed' = << >>
    /\ filesAtStart' = files
    /\ IF ScriptTable[name].needsVenv /\ "venv" \notin files
       THEN exitStatus' = "exit 1" /\ pipepc' = 0
       ELSE exitStatus' = "running" /\ pipepc' = 1
    /\ UNCHANGED <<files, notPipe>>

\* The next command of the running script.  A command whose test finds its
\* files is skipped.  A failing command ends the script only under set -e.
\* The check of required_files ends build_multi_level_system with exit 0
\* when all of them exist and with exit 1 otherwise.
RunStep(ok) ==
    /\ exitStatus = "running"
    /\ pipepc <= Len(ScriptTable[script].steps)
    /\ LET step == ScriptTable[script].steps[pipepc]
           skipped == step.unless # {} /\ step.unless \subseteq files
       IN  IF step.kind = "verify"
           THEN /\ exitStatus' = IF RequiredFiles \subseteq files THEN "exit 0" ELSE "exit 1"
                /\ pipepc' = 0
                /\ UNCHANGED <<executed, files>>
           ELSE IF skipped
           THEN /\ pipepc' = pipepc + 1
                /\ UNCHANGED <<exitStatus, executed, files>>
           ELSE /\ executed' = Append(executed, [cmd |-> step.cmd, ok |-> ok])
                /\ files' = IF ok THEN files \cup step.writes ELSE files
                /\ IF ~ok /\ ScriptTable[script].errexit
                   THEN exitStatus' = "exit 1" /\ pipepc' = 0
                   ELSE pipepc' = pipepc + 1 /\ UNCHANGED exitStatus
    /\ UNCHANGED <<script, filesAtStart, runs, notPipe>>

\* The end of a script after its last command (the closing echo lines).
ExitScript ==
    /\ exitStatus = "running"
    /\ pipepc > Len(ScriptTable[script].steps)
    /\ exitStatus' = "exit 0"
    /\ pipepc' = 0
    /\ UNCHANGED <<script, executed, files, filesAtStart, runs, notPipe>>

PipeNext ==
    \/ \E name \in ScriptNames : StartScript(name)
    \/ \E ok \in BOOLEAN : RunStep(ok)
    \/ ExitScript

(***************************************************************************)
(* C11: a failed pipeline step is fatal.  In the run of a script, a failed *)
(* step (ingest, SQL transform, GeoJSON export, H3 projection; coordinate  *)
(* fetch, coordinate update, aggregation) is the last command the run      *)
(* executes, and a run that has ended after one has a non-zero status.     *)
(***************************************************************************)
PipelineSteps ==
    {"python ingest/zillow_ingest.py", "python transform/run_sql.py",
     "python transform/export_zip_geojson.py", "python transform/project_to_h3.py",
     "python transform/fetch_zip_coordinates_fast.py",
     "python transform/update_geojson_with_coordinates.py",
     "python transform/create_multi_level_aggregation.py"}

C11_FailedStepFatal ==
    \A i \in 1..Len(executed) :
        (executed[i].cmd \in PipelineSteps /\ ~executed[i].ok) =>
            /\ i = Len(executed)
            /\ exitStatus # "exit 0"

(***************************************************************************)
(* C12: coordinate resolution is lookup-first.  A run of a script that     *)
(* resolves coordinates and finds the coordinate table starts no fetch of  *)
(* coordinates and leaves the table in place.                              *)
(***************************************************************************)
FetchCommands ==
    {"python transform/fetch_zip_coordinates_fast.py",
     "python transform/fetch_zip_coordinates.py"}

C12_LookupFirst ==
    (script \in {"build_multi_level_system", "get_coordinates"}
        /\ coordinates_json \in filesAtStart) =>
            /\ \A i \in 1..Len(executed) : executed[i].cmd \notin FetchCommands
            /\ coordinates_json \in files

(***************************************************************************)
(* C13: the levels of the client and the artifacts the build verifies      *)
(* agree.  Once build_multi_level_system has verified its files and        *)
(* reported success, the file of every level of GEOGRAPHIC_LEVELS is one   *)
(* of the files it verified, and every feature collection it verified is   *)
(* the file of exactly one level.                                          *)
(***************************************************************************)
IsFeatureCollection(file) == SubSeq(file, Len(file) - 7, Len(file)) = ".geojson"

C13_LevelsMatchArtifacts ==
    (script = "build_multi_level_system" /\ exitStatus = "exit 0") =>
        /\ \A level \in Levels : GEOGRAPHIC_LEVELS[level].file \in RequiredFiles
        /\ \A file \in RequiredFiles :
            IsFeatureCollection(file) =>
                Cardinality({level \in Levels : GEOGRAPHIC_LEVELS[level].file = file}) = 1

(***************************************************************************)
(* C22: build_multi_level_system ends with exit status 0 only when the     *)
(* coordinate update and the aggregation of this run both succeeded and    *)
(* all six required files exist; a run in which a pipeline step failed or  *)
(* a required file is missing ends with exit status 1.                     *)
(***************************************************************************)
Succeeded(cmd) ==
    \E i \in 1..Len(executed) : executed[i].cmd = cmd /\ executed[i].ok

C22_SuccessOnlyAfterSuccess ==
    (script = "build_multi_level_system" /\ exitStatus \in {"exit 0", "exit 1"}) =>
        /\ exitStatus = "exit 0" =>
                /\ Succeeded("python transform/update_geojson_with_coordinates.py")
                /\ Succeeded("python transform/create_multi_level_aggregation.py")
                /\ RequiredFiles \subseteq files
        /\ (\/ \E i \in 1..Len(executed) :
                    executed[i].cmd \in PipelineSteps /\ ~executed[i].ok
            \/ ~(RequiredFiles \subseteq files)) => exitStatus = "exit 1"

(***************************************************************************)
(* The aggregation engine (transform/create_multi_level_aggregation.py,    *)
(* run by build_multi_level_system Step 3).  Its input is the joined       *)
(* MetricRecord table and the grouping tables; its output is one feature   *)
(* per level and group, holding one StatBlock per date.                    *)
(***************************************************************************)
MaxMembers == 4

\* Nulls are excluded before the reduction; values is the list left.
RECURSIVE SortAscending(_)
SortAscending(values) ==
    IF Len(values) <= 1 THEN values
    ELSE LET first == Head(values)
             rest == SortAscending(Tail(values))
             k == Cardinality({i \in 1..Len(rest) : rest[i] < first})
         IN  SubSeq(rest, 1, k) \o <<first>> \o SubSeq(rest, k + 1, Len(rest))

MedianOf_UpperMiddle(values) ==
    LET sorted == SortAscending(values)
    IN  Quot(sorted[Len(sorted) \div 2 + 1], 1)

\* The middle value of the sorted list, the mean of the two middle values
\* for an even length.
MedianOf(values) ==
    LET sorted == SortAscending(values)
        n == Len(sorted)
    IN  IF n % 2 = 1 THEN Quot(sorted[(n + 1) \div 2], 1)
        ELSE Quot(sorted[n \div 2] + sorted[n \div 2 + 1], 2)

Reduce_EmptyAsZero(values) ==
    IF values = << >>
    THEN [avg |-> Quot(0, 1), median |-> Quot(0, 1), max |-> Quot(0, 1),
          min |-> Quot(0, 1), count |-> 0]
    ELSE [avg |-> Quot(SumOf(values), Len(values)),
          median |-> MedianOf(values),
          max |-> Quot(SortAscending(values)[Len(values)], 1),
          min |-> Quot(SortAscending(values)[1], 1),
          count |-> Len(values)]

\* avg, median, max, min and count of a list of values; null statistics
\* for the empty list.
Reduce(values) ==
    IF values = << >>
    THEN [avg |-> Null, median |-> Null, max |-> Null, min |-> Null, count |-> 0]
    ELSE [avg |-> Quot(SumOf(values), Len(values)),
          median |-> MedianOf(values),
          max |-> Quot(SortAscending(values)[Len(values)], 1),
          min |-> Quot(SortAscending(values)[1], 1),
          count |-> Len(values)]

\* One call of the reduction, on a list of up to MaxMembers values.
ReduceValues == {100, 200, 300, 900, 500000, 700000}
ReduceInputs == UNION {[1..n -> ReduceValues] : n \in 0..MaxMembers}

NoReduction == [avg |-> Null, median |-> Null, max |-> Null, min |-> Null, count |-> 0]

ReduceInit == reduceInput \in ReduceInputs /\ reduceResult = NoReduction /\ reducepc = "ready"
ReduceIdle == reduceInput = << >> /\ reduceResult = NoReduction /\ reducepc = "idle"

CallReduce ==
    /\ reducepc = "ready"
    /\ reduceResult' = Reduce(reduceInput)
    /\ reducepc' = "returned"
    /\ UNCHANGED <<reduceInput, notReduce>>

ReduceNext == CallReduce

\* The grouping tables: ZIP to state (ZIP_TO_STATE), state to state region,
\* state region to region, and ZIP to hex cell.
STATE_TO_STATE_REGION ==
    [MA |-> "New England", RI |-> "New England", NY |-> "Mid-Atlantic"]
STATE_REGION_TO_REGION ==
    ("New England" :> "Northeast") @@ ("Mid-Atlantic" :> "Northeast")
ZIP_TO_CELL == ("02101" :> "cell-1") @@ ("02102" :> "cell-1") @@ ("10001" :> "cell-2")

AggZips == <<"02101", "02102", "10001">>
AggDates == <<"2024-02", "2024-03">>
AggLevels == {"zipcode", "state", "state_region", "region", "h3"}
AggMetrics == {"zhvi", "zori"}
AggKeys == (1..Len(AggZips)) \X (1..Len(AggDates))

\* The MetricRecord of ZIP i at date j: missing, or present with a home
\* value or null and a rent value or null.
NoRecord == [present |-> FALSE, zhvi |-> Null, zori |-> Null]
RecordChoice(i, j, choice) ==
    CASE choice = 1 -> NoRecord
      [] choice = 2 -> [present |-> TRUE, zhvi |-> Num(100 * i + j), zori |-> Null]
      [] choice = 3 -> [present |-> TRUE, zhvi |-> Num(100 * i + j), zori |-> Num(10 * i + j)]
      [] choice = 4 -> [present |-> TRUE, zhvi |-> Null, zori |-> Null]
      [] choice = 5 -> [present |-> TRUE, zhvi |-> Null, zori |-> Num(10 * i + j)]

\* Every kind of record at the first date; missing, complete or all null at
\* the later ones.
RecordChoices(j) == IF j = 1 THEN 1..5 ELSE {1, 3, 4}
RecordTables ==
    {[k \in AggKeys |-> RecordChoice(k[1], k[2], choice[k])] :
        choice \in {c \in [AggKeys -> 1..5] : \A k \in AggKeys : c[k] \in RecordChoices(k[2])}}

Without(table, key) == [k \in DOMAIN table \ {key} |-> table[k]]
Lookup(table, key) == IF key \in DOMAIN table THEN table[key] ELSE ""

GroupKey_ZipPrefix(level, zcta) ==
    CASE level = "zipcode" -> SubSeq(zcta, 1, 3)
      [] level = "state" -> Lookup(zipToState, zcta)
      [] level = "state_region" -> Lookup(stateToStateRegion, Lookup(zipToState, zcta))
      [] level = "region" ->
            Lookup(STATE_REGION_TO_REGION,
                   Lookup(stateToStateRegion, Lookup(zipToState, zcta)))
      [] level = "h3" -> Lookup(ZIP_TO_CELL, zcta)

GroupKey_StateRequired(level, zcta) ==
    IF Lookup(stateToStateRegion, Lookup(zipToState, zcta)) = "" THEN ""
    ELSE CASE level = "zipcode" -> zcta
           [] level = "state" -> Lookup(zipToState, zcta)
           [] level = "state_region" -> Lookup(stateToStateRegion, Lookup(zipToState, zcta))
           [] level = "region" ->
                 Lookup(STATE_REGION_TO_REGION,
                        Lookup(stateToStateRegion, Lookup(zipToState, zcta)))
           [] level = "h3" -> Lookup(ZIP_TO_CELL, zcta)

\* The grouping key of a ZIP at a level; "" when a table has no entry.
GroupKey(level, zcta) ==
    CASE level = "zipcode" -> zcta
      [] level = "state" -> Lookup(zipToState, zcta)
      [] level = "state_region" -> Lookup(stateToStateRegion, Lookup(zipToState, zcta))
      [] level = "region" ->
            Lookup(STATE_REGION_TO_REGION,
                   Lookup(stateToStateRegion, Lookup(zipToState, zcta)))
      [] level = "h3" -> Lookup(ZIP_TO_CELL, zcta)

\* The ZIPs of the record table, and those of one group.
DatasetZips(records) ==
    {i \in 1..Len(AggZips) : \E j \in 1..Len(AggDates) : records[<<i, j>>].present}
MembersOf(records, level, key) ==
    {i \in DatasetZips(records) : GroupKey(level, AggZips[i]) = key}

\* The non-null values of a metric of the members at date j.
MetricValues(records, members, j, metric) ==
    LET with == SelectSeq([i \in 1..Len(AggZips) |-> i],
                          LAMBDA i : i \in members /\ records[<<i, j>>][metric] # Null)
    IN  [k \in 1..Len(with) |-> records[<<with[k], j>>][metric].v]

MetricStats_AvgOverMembers(records, members, j, metric) ==
    LET values == MetricValues(records, members, j, metric)
    IN  IF values = << >> THEN Reduce(values)
        ELSE [Reduce(values) EXCEPT !.avg = Quot(SumOf(values), Cardinality(members))]

MetricStats(records, members, j, metric) ==
    Reduce(MetricValues(records, members, j, metric))

MemberCount_BothMetrics(records, members, j) ==
    Cardinality({i \in members :
        records[<<i, j>>].zhvi # Null /\ records[<<i, j>>].zori # Null})

\* count: the members that contribute a value at date j.
MemberCount(records, members, j) ==
    Cardinality({i \in members :
        records[<<i, j>>].zhvi # Null \/ records[<<i, j>>].zori # Null})

StatBlockOf(records, members, j) ==
    LET h == MetricStats(records, members, j, "zhvi")
        r == MetricStats(records, members, j, "zori")
    IN  [avg_zhvi |-> h.avg, median_zhvi |-> h.median, max_zhvi |-> h.max,
         min_zhvi |-> h.min, count_zhvi |-> h.count,
         avg_zori |-> r.avg, median_zori |-> r.median, max_zori |-> r.max,
         min_zori |-> r.min, count_zori |-> r.count,
         count |-> MemberCount(records, members, j)]

\* One feature per group of the level, with a StatBlock for every date.
LevelFeatures(records, level) ==
    {[id |-> key, level |-> level,
      metrics |-> [j \in 1..Len(AggDates) |->
                      StatBlockOf(records, MembersOf(records, level, key), j)]] :
        key \in {GroupKey(level, AggZips[i]) : i \in DatasetZips(records)} \ {""}}

AggInit ==
    /\ aggRecords \in RecordTables
    /\ zipToState \in {ZIP_TO_STATE, Without(ZIP_TO_STATE, "02102")}
    /\ stateToStateRegion \in {STATE_TO_STATE_REGION, Without(STATE_TO_STATE_REGION, "NY")}
    /\ aggOutput = [level \in AggLevels |-> {}]
    /\ aggpc = "ready"

AggIdle ==
    /\ aggRecords = << >>
    /\ zipToState = << >>
    /\ stateToStateRegion = << >>
    /\ aggOutput = << >>
    /\ aggpc = "idle"

\* One run of the engine: every level is aggregated and emitted.
RunAggregation ==
    /\ aggpc = "ready"
    /\ aggOutput' = [level \in AggLevels |-> LevelFeatures(aggRecords, level)]
    /\ aggpc' = "done"
    /\ UNCHANGED <<aggRecords, zipToState, stateToStateRegion, notAgg>>

AggNext == RunAggregation

(***************************************************************************)
(* Claims about the aggregation engine.                                    *)
(***************************************************************************)
\* Quotients with positive denominators: equal to an integer, ordered.
QuotIs(q, k) == q # Null /\ q.d > 0 /\ q.n = k * q.d
QuotLeq(p, q) == p.n * q.d <= q.n * p.d

\* m is the reference median of values: the middle value when their number
\* is odd, the mean of the two middle values when it is even.
IsMedian(m, values) ==
    LET n == Len(values)
        h == n \div 2
        Splits(rest, low, high) ==
            \E below \in SUBSET rest :
                /\ Cardinality(below) = h - (IF n % 2 = 0 THEN 1 ELSE 0)
                /\ \A k \in below : values[k] <= low
                /\ \A k \in rest \ below : values[k] >= high
    IN  IF n % 2 = 1
        THEN \E p \in 1..n :
                /\ Splits((1..n) \ {p}, values[p], values[p])
                /\ QuotIs(m, values[p])
        ELSE \E p, q \in 1..n :
                /\ p # q /\ values[p] <= values[q]
                /\ Splits((1..n) \ {p, q}, values[p], values[q])
                /\ m # Null /\ m.d > 0 /\ 2 * m.n = (values[p] + values[q]) * m.d

\* C20: every reduction equals its reference definition over the non-null
\* values: avg is their arithmetic mean, median the middle value (the mean of
\* the two middle values for an even number), max and min the largest and the
\* smallest, count their number; so the median of {100, 200, 900} is 200, that
\* of {100, 200, 300, 900} is 250, and 500000 and 700000 give avg 600000,
\* median 600000, max 700000, min 500000 and count 2.
C20_ReductionsAreReference ==
    (reducepc = "returned" /\ reduceInput # << >>) =>
        LET n == Len(reduceInput)
            r == reduceResult
            total == SumOf([i \in 1..n |-> reduceInput[n + 1 - i]])
        IN  /\ r.avg # Null /\ r.avg.d > 0 /\ r.avg.n * n = total * r.avg.d
            /\ IsMedian(r.median, reduceInput)
            /\ \E i \in 1..n : QuotIs(r.max, reduceInput[i])
            /\ \A i \in 1..n : QuotLeq(Quot(reduceInput[i], 1), r.max)
            /\ \E i \in 1..n : QuotIs(r.min, reduceInput[i])
            /\ \A i \in 1..n : QuotLeq(r.min, Quot(reduceInput[i], 1))
            /\ r.count = n
            /\ reduceInput = <<100, 200, 900>> => QuotIs(r.median, 200)
            /\ reduceInput = <<100, 200, 300, 900>> => QuotIs(r.median, 250)
            /\ reduceInput = <<500000, 700000>> =>
                    /\ QuotIs(r.avg, 600000) /\ QuotIs(r.median, 600000)
                    /\ QuotIs(r.max, 700000) /\ QuotIs(r.min, 500000) /\ r.count = 2

C20_Witness ==
    /\ reducepc = "returned"
    /\ reduceInput = <<900, 100, 300, 200>>
    /\ QuotIs(reduceResult.median, 250)
    /\ QuotIs(reduceResult.max, 900)
    /\ reduceResult.count = 4


\* The statistics of one metric in a StatBlock.
StatsOf(block, metric) ==
    IF metric = "zhvi"
    THEN [avg |-> block.avg_zhvi, median |-> block.median_zhvi, max |-> block.max_zhvi,
          min |-> block.min_zhvi, count |-> block.count_zhvi]
    ELSE [avg |-> block.avg_zori, median |-> block.median_zori, max |-> block.max_zori,
          min |-> block.min_zori, count |-> block.count_zori]

\* The record table's non-null values of a metric at date j among the ZIPs
\* whose grouping key at the level is key.
GroupValues(level, key, j, metric) ==
    {aggRecords[<<i, j>>][metric].v : i \in {m \in 1..Len(AggZips) :
        /\ GroupKey(level, AggZips[m]) = key
        /\ aggRecords[<<m, j>>][metric] # Null}}

\* C15: for every level, group, date and metric with at least one non-null
\* member value, min <= median <= max and min <= avg <= max.
C15_ReductionsOrdered ==
    aggpc = "done" =>
        \A level \in AggLevels : \A feature \in aggOutput[level] :
            \A j \in 1..Len(AggDates), metric \in AggMetrics :
                GroupValues(level, feature.id, j, metric) # {} =>
                    LET s == StatsOf(feature.metrics[j], metric)
                    IN  /\ s.min # Null /\ s.median # Null /\ s.max # Null /\ s.avg # Null
                        /\ QuotLeq(s.min, s.median) /\ QuotLeq(s.median, s.max)
                        /\ QuotLeq(s.min, s.avg) /\ QuotLeq(s.avg, s.max)

\* A state reduced over two different home values and one rent value, with
\* min < avg < max for the home values.
C15_Witness ==
    /\ aggpc = "done"
    /\ \E feature \in aggOutput["state"] :
            LET s == StatsOf(feature.metrics[1], "zhvi")
            IN  /\ s.count = 2
                /\ feature.metrics[1].count_zori = 1
                /\ ~QuotLeq(s.avg, s.min)
                /\ ~QuotLeq(s.max, s.avg)


\* The ZIPs with a record at some date.
RecordedZips ==
    {i \in 1..Len(AggZips) : \E j \in 1..Len(AggDates) : aggRecords[<<i, j>>] # NoRecord}

CountsOf(features, key, j) ==
    IF \E feature \in features : feature.id = key
    THEN LET block == (CHOOSE feature \in features : feature.id = key).metrics[j]
         IN  <<block.count, block.count_zhvi, block.count_zori>>
    ELSE <<0, 0, 0>>

C18_ZipLevelSingleton ==
    aggpc = "done" =>
        /\ \A feature \in aggOutput["zipcode"] :
                Cardinality({i \in 1..Len(AggZips) : AggZips[i] = feature.id}) = 1
        /\ \A i \in 1..Len(AggZips), j \in 1..Len(AggDates), metric \in AggMetrics :
                aggRecords[<<i, j>>][metric] # Null =>
                    \E feature \in aggOutput["zipcode"] :
                        LET s == StatsOf(feature.metrics[j], metric)
                            value == aggRecords[<<i, j>>][metric].v
                        IN  /\ feature.id = AggZips[i]
                            /\ QuotIs(s.avg, value) /\ QuotIs(s.median, value)
                            /\ QuotIs(s.max, value) /\ QuotIs(s.min, value)
                            /\ s.count = 1
                            /\ feature.metrics[j].count = 1

\* Two ZIPs of one state, each with its own ZIP-level feature.
C18_Witness ==
    /\ aggpc = "done"
    /\ \E f, g \in aggOutput["zipcode"] :
            /\ f.id = "02101" /\ g.id = "02102"
            /\ QuotIs(f.metrics[1].avg_zhvi, 101) /\ QuotIs(f.metrics[1].min_zhvi, 101)
            /\ QuotIs(g.metrics[1].median_zhvi, 201) /\ QuotIs(g.metrics[1].max_zhvi, 201)
            /\ f.metrics[1].count = 1 /\ g.metrics[1].count = 1


\* The ZIP has an entry in every grouping table the level's key is derived
\* from.
Mapped(level, zcta) ==
    LET hasState == zcta \in DOMAIN zipToState
        hasStateRegion == hasState /\ zipToState[zcta] \in DOMAIN stateToStateRegion
    IN  CASE level = "zipcode" -> TRUE
          [] level = "state" -> hasState
          [] level = "state_region" -> hasStateRegion
          [] level = "region" ->
                /\ hasStateRegion
                /\ stateToStateRegion[zipToState[zcta]] \in DOMAIN STATE_REGION_TO_REGION
          [] level = "h3" -> zcta \in DOMAIN ZIP_TO_CELL

\* The record table without the records of ZIP i.
WithoutZip(i) == [k \in AggKeys |-> IF k[1] = i THEN NoRecord ELSE aggRecords[k]]

\* C19: a ZIP with no entry in the grouping table of a level is left out of
\* that level's aggregates only: the level's output is what it would be
\* without the ZIP, while at every level where the ZIP is mapped its values are
\* counted in the feature of its group.
C19_UnmappedLeftOutOfLevelOnly ==
    aggpc = "done" =>
        \A i \in RecordedZips, level \in AggLevels :
            IF Mapped(level, AggZips[i])
            THEN /\ (\E j \in 1..Len(AggDates), metric \in AggMetrics :
                            aggRecords[<<i, j>>][metric] # Null) =>
                        aggOutput[level] # LevelFeatures(WithoutZip(i), level)
                 /\ \E feature \in aggOutput[level] :
                        \A j \in 1..Len(AggDates), metric \in AggMetrics :
                            aggRecords[<<i, j>>][metric] # Null =>
                                LET s == StatsOf(feature.metrics[j], metric)
                                    value == Quot(aggRecords[<<i, j>>][metric].v, 1)
                                IN  /\ s.count >= 1
                                    /\ QuotLeq(s.min, value) /\ QuotLeq(value, s.max)
            ELSE aggOutput[level] = LevelFeatures(WithoutZip(i), level)

\* New York has no state region: ZIP 10001 is counted at the ZIP, state and
\* hex levels and in no state region or region, while the ZIPs of
\* Massachusetts are.
C19_Witness ==
    /\ aggpc = "done"
    /\ "NY" \notin DOMAIN stateToStateRegion
    /\ zipToState = ZIP_TO_STATE
    /\ CountsOf(aggOutput["zipcode"], "10001", 1) = <<1, 1, 1>>
    /\ CountsOf(aggOutput["state"], "NY", 1) = <<1, 1, 1>>
    /\ CountsOf(aggOutput["h3"], "cell-2", 1) = <<1, 1, 1>>
    /\ {feature.id : feature \in aggOutput["state_region"]} = {"New England"}
    /\ CountsOf(aggOutput["region"], "Northeast", 1) = <<2, 2, 2>>

(***************************************************************************)
(* The specifications.                                                     *)
(***************************************************************************)
InitSql ==
    SqlInit /\ StatIdle /\ AppIdle /\ FileIdle /\ OverviewIdle /\ ProgIdle /\ PipeIdle
    /\ ReduceIdle /\ AggIdle /\ PlayIdle /\ DateIdle
SpecSql == InitSql /\ [][SqlNext]_vars

InitStat ==
    StatInit /\ SqlIdle /\ AppIdle /\ FileIdle /\ OverviewIdle /\ ProgIdle /\ PipeIdle
    /\ ReduceIdle /\ AggIdle /\ PlayIdle /\ DateIdle
SpecStat == InitStat /\ [][StatNext]_vars

InitApp ==
    AppInit /\ SqlIdle /\ StatIdle /\ FileIdle /\ OverviewIdle /\ ProgIdle /\ PipeIdle
    /\ ReduceIdle /\ AggIdle /\ PlayIdle /\ DateIdle
SpecApp == InitApp /\ [][AppNext]_vars

InitOverview ==
    OverviewInit /\ FileInit /\ SqlIdle /\ StatIdle /\ AppIdle /\ ProgIdle /\ PipeIdle
    /\ ReduceIdle /\ AggIdle /\ PlayIdle /\ DateIdle
SpecOverview == InitOverview /\ [][OverviewNext]_vars

InitProg ==
    ProgInit /\ FileInit /\ SqlIdle /\ StatIdle /\ AppIdle /\ OverviewIdle /\ PipeIdle
    /\ ReduceIdle /\ AggIdle /\ PlayIdle /\ DateIdle
SpecProg == InitProg /\ [][ProgNext]_vars

InitPd ==
    /\ SqlIdle /\ StatIdle /\ AppIdle /\ OverviewIdle /\ PipeIdle /\ ReduceIdle /\ AggIdle
    /\ PlayIdle /\ DateIdle /\ PdInit

SpecPd == InitPd /\ [][PdNext]_vars

\* Playback left alone: the interval timer keeps firing, and the button is
\* clicked only while nothing plays.
SpecPdPlay ==
    InitPd /\ [][PdPlayNext]_vars
    /\ WF_vars(\E id \in DOMAIN pdIntervalTimers : PdIntervalTick(id))

InitPipe ==
    PipeInit /\ SqlIdle /\ StatIdle /\ AppIdle /\ FileIdle /\ OverviewIdle /\ ProgIdle
    /\ ReduceIdle /\ AggIdle /\ PlayIdle /\ DateIdle
SpecPipe == InitPipe /\ [][PipeNext]_vars

InitReduce ==
    ReduceInit /\ SqlIdle /\ StatIdle /\ AppIdle /\ FileIdle /\ OverviewIdle /\ ProgIdle
    /\ PipeIdle /\ AggIdle /\ PlayIdle /\ DateIdle
SpecReduce == InitReduce /\ [][ReduceNext]_vars

InitAgg ==
    AggInit /\ SqlIdle /\ StatIdle /\ AppIdle /\ FileIdle /\ OverviewIdle /\ ProgIdle
    /\ PipeIdle /\ ReduceIdle /\ PlayIdle /\ DateIdle
SpecAgg == InitAgg /\ [][AggNext]_vars

InitPlay ==
    PlayInit /\ AppInit /\ SqlIdle /\ StatIdle /\ FileIdle /\ OverviewIdle /\ ProgIdle
    /\ PipeIdle /\ ReduceIdle /\ AggIdle /\ DateIdle
SpecPlay == InitPlay /\ [][PlayNext]_vars

InitDate ==
    DateInit /\ SqlIdle /\ StatIdle /\ AppIdle /\ FileIdle /\ OverviewIdle /\ ProgIdle
    /\ PipeIdle /\ ReduceIdle /\ AggIdle /\ PlayIdle
SpecDate == InitDate /\ [][DateNext]_vars

====
